---- MODULE Spec2Model ----
(***************************************************************************)
(* A model of tm_data_types: the waveform objects with their cached        *)
(* properties, the byte-level .wfm encoder and decoder (WfmFormat), the    *)
(* "tekmeta!" metadata block and the read_file / write_file dispatch.      *)
(*                                                                         *)
(* Conventions                                                             *)
(*  - A Python float is modelled exactly as a fixed-point number with one  *)
(*    fractional bit: the integer n stands for the float n/2.  All inputs  *)
(*    are chosen so that every product and quotient the code computes is   *)
(*    again a multiple of 1/2 (no rounding happens in IEEE-754 either).    *)
(*  - Python None is the empty tuple <<>>, a present value x is <<x>>.     *)
(*  - bytes objects are sequences over 0..255; a str is the sequence of    *)
(*    its code points.                                                     *)
(*  - A raised exception is a record with an "err" field.                  *)
(***************************************************************************)
EXTENDS Integers, Sequences, FiniteSets, TLC

VARIABLES
    w,          \* the waveform object held by the caller
    ret,        \* what the last operation on w returned or raised
    hist,       \* history of normalized_vertical_values: "unread", "read", then
                \* "assigned" once an input changed, "reread" once read after that;
                \* for a file, what was done to it since it was written
    fmt,        \* the WfmFormat object being filled in
    fd          \* the file: its byte order and its bytes, or None before a write

vars == <<w, ret, hist, fmt, fd>>

None == <<>>
Some(x) == <<x>>
IsNone(o) == o = <<>>
The(o) == o[1]

----------------------------------------------------------------------------
(* Arithmetic helpers.                                                     *)

Abs(x) == IF x < 0 THEN -x ELSE x

RECURSIVE Pow2(_)
Pow2(n) == IF n <= 0 THEN 1 ELSE 2 * Pow2(n - 1)

RECURSIVE Log2Floor(_)
Log2Floor(n) == IF n < 2 THEN 0 ELSE 1 + Log2Floor(n \div 2)

RECURSIVE GCD(_, _)
GCD(a, b) == IF b = 0 THEN Abs(a) ELSE GCD(Abs(b), Abs(a) % Abs(b))

\* Python floats n/2 (fixed point, one fractional bit).
FxInt(i) == 2 * i
FxMul(a, b) == (a * b) \div 2
FxDiv(a, b) == (2 * a) \div b
FxNeg(a) == 0 - a

\* Exact rationals <<numerator, denominator>>, denominator > 0, in lowest terms.
QNorm(n, d) ==
    LET g == GCD(n, d)
        s == IF d < 0 THEN -1 ELSE 1
    IN  <<(s * n) \div g, (s * d) \div g>>
QOfFx(a) == QNorm(a, 2)
QOfInt(i) == <<i, 1>>
QMul(p, q) ==
    LET g1 == GCD(p[1], q[2])
        g2 == GCD(q[1], p[2])
    IN  QNorm((p[1] \div g1) * (q[1] \div g2), (p[2] \div g2) * (q[2] \div g1))
QDiv(p, q) == QMul(p, <<q[2], q[1]>>)
QSub(p, q) ==
    LET g == GCD(p[2], q[2])
    IN  QNorm(p[1] * (q[2] \div g) - q[1] * (p[2] \div g), (p[2] \div g) * q[2])
QToFx(q) == (2 * q[1]) \div q[2]
QAdd(p, q) == QSub(p, <<0 - q[1], q[2]>>)
QAbs(p) == <<Abs(p[1]), p[2]>>
\* p <= q
QLeq(p, q) == QSub(p, q)[1] <= 0

----------------------------------------------------------------------------
(* numpy dtypes, named by their np_repr.                                   *)

IntDTypes == {"i1", "u1", "i2", "i4", "u4", "u8"}
FloatDTypes == {"f4", "f8"}
UnsignedDTypes == {"u1", "u4", "u8"}

ItemSize(dtype) ==
    CASE dtype \in {"i1", "u1"} -> 1
      [] dtype = "i2" -> 2
      [] dtype \in {"i4", "u4", "f4"} -> 4
      [] dtype \in {"u8", "f8"} -> 8

\* np.iinfo(dtype).max / .min for the widths the fixed-point model can hold
type_max(dtype) ==
    CASE dtype = "i1" -> Pow2(7) - 1
      [] dtype = "u1" -> Pow2(8) - 1
      [] dtype = "i2" -> Pow2(15) - 1

type_min(dtype) ==
    CASE dtype = "i1" -> 0 - Pow2(7)
      [] dtype = "u1" -> 0
      [] dtype = "i2" -> 0 - Pow2(15)

----------------------------------------------------------------------------
(* Measured data (datum/data_types.py).  An array is a record              *)
(*   [cls, dtype, data]: cls is the MeasuredData subclass ("ndarray" for a *)
(* plain numpy array), data the sequence of elements.  Elements of an      *)
(* integer or float RawSample array are whole numbers; elements of a       *)
(* Normalized array are fixed-point floats.                                *)

Raise(e) == [err |-> e]
Ok(v) == [err |-> "", val |-> v]
Failed(r) == r.err # ""
\* an exception raised after part of the work was done: val is what was done
RaiseAfter(r, done) == [err |-> r.err, val |-> done]

EmptyMeasuredData == [cls |-> "MeasuredData", dtype |-> "f8", data |-> <<>>]

NdArray(dtype, data) == [cls |-> "ndarray", dtype |-> dtype, data |-> data]

\* RawSample(ndarray): the array is taken as it is, no conversion
RawSample(arr) == [cls |-> "RawSample", dtype |-> arr.dtype, data |-> arr.data]

\* Normalized(measured_data, spacing, offset) with as_type None
Normalized(measured_data, spacing, offset) ==
    CASE measured_data.cls = "MeasuredData" -> Raise("NotImplementedError")
      [] measured_data.cls = "Normalized" ->
            Ok([cls |-> "Normalized", dtype |-> measured_data.dtype,
                data |-> measured_data.data])
      [] OTHER ->
            Ok([cls |-> "Normalized", dtype |-> "f8",
                data |-> [i \in 1..Len(measured_data.data) |->
                             measured_data.data[i] * spacing + offset]])

\* little-endian two's-complement bytes of the whole number v, width bytes wide
IntBytesLE(v, width) ==
    LET u == IF v >= 0 THEN v ELSE 0 - (v + 1)
        b(i) == IF i > 4 THEN 0 ELSE (u \div Pow2(8 * (i - 1))) % 256
    IN  [i \in 1..width |-> IF v >= 0 THEN b(i) ELSE 255 - b(i)]

\* the eight bits of a byte, most significant first (np.unpackbits)
ByteBits(b) == [k \in 1..8 |-> (b \div Pow2(8 - k)) % 2]

\* Digitized(measured_data).reshape((record_length, -1))
Digitized(measured_data) ==
    IF measured_data.cls = "MeasuredData" THEN Raise("NotImplementedError")
    ELSE LET n == ItemSize(measured_data.dtype)
             row(v) == LET bs == IntBytesLE(v, n)
                       IN  [k \in 1..(8 * n) |->
                              ByteBits(bs[((k - 1) \div 8) + 1])[((k - 1) % 8) + 1]]
         IN  Ok([cls |-> "Digitized", dtype |-> "u1",
                 data |-> [i \in 1..Len(measured_data.data) |->
                              row(measured_data.data[i])]])

----------------------------------------------------------------------------
(* Waveform objects (datum/waveforms).  The record fields carry the names  *)
(* of the Python attributes; the two cached properties are the fields      *)
(* normalized_vertical_values and normalized_horizontal_values, None while *)
(* the property is not in the instance __dict__.                           *)

\* a str or bytes value is [t, v]: the units "V", "s" and ""
UnitV == [t |-> "str", v |-> <<86>>]
UnitS == [t |-> "str", v |-> <<115>>]
UnitNone == [t |-> "str", v |-> <<>>]

Waveform(kind) ==
    [kind |-> kind, meta_info |-> None, trigger_index |-> None,
     x_axis_spacing |-> FxInt(1), x_axis_units |-> UnitS,
     normalized_vertical_values |-> None,
     normalized_horizontal_values |-> None]

AnalogWaveform ==
    [f \in DOMAIN Waveform("analog") \cup
           {"y_axis_values", "y_axis_spacing", "y_axis_offset", "y_axis_units"} |->
        CASE f = "y_axis_values" -> EmptyMeasuredData
          [] f = "y_axis_spacing" -> FxInt(1)
          [] f = "y_axis_offset" -> 0
          [] f = "y_axis_units" -> UnitV
          [] OTHER -> Waveform("analog")[f]]

IQWaveform ==
    [f \in DOMAIN Waveform("iq") \cup
           {"interleaved_iq_axis_values", "iq_axis_spacing", "iq_axis_offset",
            "iq_axis_units"} |->
        CASE f = "interleaved_iq_axis_values" -> EmptyMeasuredData
          [] f = "iq_axis_spacing" -> FxInt(1)
          [] f = "iq_axis_offset" -> 0
          [] f = "iq_axis_units" -> UnitV
          [] OTHER -> Waveform("iq")[f]]

DigitalWaveform ==
    [f \in DOMAIN Waveform("digital") \cup {"y_axis_byte_values", "y_axis_units"} |->
        CASE f = "y_axis_byte_values" -> EmptyMeasuredData
          [] f = "y_axis_units" -> UnitNone
          [] OTHER -> Waveform("digital")[f]]

\* the attribute that holds the sample array of each kind
SampleAttr(kind) ==
    CASE kind = "analog" -> "y_axis_values"
      [] kind = "iq" -> "interleaved_iq_axis_values"
      [] kind = "digital" -> "y_axis_byte_values"

Wrap(value) == IF value.cls = "ndarray" THEN RawSample(value) ELSE value

\* a variant of AnalogWaveform.__setattr__ that forgets the cache on a new spacing
AnalogWaveform__setattr__KeepOnSpacing(self, key, value) ==
    LET popped == IF key \in {"y_axis_values", "y_axis_offset"}
                  THEN [self EXCEPT !.normalized_vertical_values = None]
                  ELSE self
    IN  IF key = "y_axis_values"
        THEN [popped EXCEPT !.y_axis_values = Wrap(value)]
        ELSE [popped EXCEPT ![key] = value]

AnalogWaveform__setattr__(self, key, value) ==
    LET popped == IF key \in {"y_axis_values", "y_axis_spacing", "y_axis_offset"}
                  THEN [self EXCEPT !.normalized_vertical_values = None]
                  ELSE self
    IN  IF key = "y_axis_values"
        THEN [popped EXCEPT !.y_axis_values = Wrap(value)]
        ELSE [popped EXCEPT ![key] = value]

IQWaveform__setattr__(self, key, value) ==
    IF key = "interleaved_iq_axis_values"
    THEN [self EXCEPT !.interleaved_iq_axis_values = Wrap(value)]
    ELSE [self EXCEPT ![key] = value]

DigitalWaveform__setattr__(self, key, value) ==
    LET popped == IF key \in {"y_axis_values", "y_axis_spacing", "y_axis_offset"}
                  THEN [self EXCEPT !.normalized_vertical_values = None]
                  ELSE self
    IN  IF key = "y_axis_byte_values"
        THEN [popped EXCEPT !.y_axis_byte_values = Wrap(value)]
        ELSE [popped EXCEPT ![key] = value]

Setattr(self, key, value) ==
    CASE self.kind = "analog" -> AnalogWaveform__setattr__(self, key, value)
      [] self.kind = "iq" -> IQWaveform__setattr__(self, key, value)
      [] self.kind = "digital" -> DigitalWaveform__setattr__(self, key, value)

----------------------------------------------------------------------------
(* Cached properties and property setters of the waveform classes.         *)

\* Waveform._measured_data
MeasuredDataOf(self) ==
    CASE self.kind = "analog" -> self.y_axis_values
      [] self.kind = "digital" -> self.y_axis_byte_values
      [] self.kind = "iq" ->
            \* q_axis_values: interleaved_iq_axis_values[1::2]
            LET a == self.interleaved_iq_axis_values
            IN  [a EXCEPT !.data = [i \in 1..(Len(a.data) \div 2) |-> a.data[2 * i]]]

\* IQWaveform.i_axis_values: interleaved_iq_axis_values[::2]
i_axis_values(self) ==
    LET a == self.interleaved_iq_axis_values
    IN  [a EXCEPT !.data = [i \in 1..((Len(a.data) + 1) \div 2) |-> a.data[2 * i - 1]]]

\* Waveform.record_length
record_length(self) == Len(MeasuredDataOf(self).data)

\* the body of the cached property normalized_vertical_values
ComputeNormalizedVertical(self) ==
    CASE self.kind = "analog" ->
            Normalized(self.y_axis_values, self.y_axis_spacing, self.y_axis_offset)
      [] self.kind = "iq" ->
            LET ni == Normalized(i_axis_values(self), self.iq_axis_spacing,
                                 self.iq_axis_offset)
                nq == Normalized(MeasuredDataOf(self), self.iq_axis_spacing,
                                 self.iq_axis_offset)
            IN  IF Failed(ni) THEN ni
                ELSE IF Failed(nq) THEN nq
                ELSE IF Len(ni.val.data) # Len(nq.val.data) THEN Raise("ValueError")
                ELSE Ok([cls |-> "Normalized", dtype |-> "c16",
                         data |-> [k \in 1..Len(ni.val.data) |->
                                      <<ni.val.data[k], nq.val.data[k]>>]])
      [] self.kind = "digital" -> Digitized(self.y_axis_byte_values)

\* the body of the cached property normalized_horizontal_values (np.arange)
ComputeNormalizedHorizontal(self) ==
    IF IsNone(self.trigger_index) THEN Raise("TypeError")
    ELSE LET trigger_location == FxMul(The(self.trigger_index), self.x_axis_spacing)
             start == 0 - trigger_location
             \* (stop - start) / step = record_length - 1/2, rounded up
             count == record_length(self)
         IN  Ok([i \in 1..count |-> start + (i - 1) * self.x_axis_spacing])

\* functools.cached_property: the stored value if there is one, else the body's
\* result, which is stored unless the body raised
CachedGet(self, prop, computed) ==
    IF ~IsNone(self[prop]) THEN [self |-> self, out |-> Ok(The(self[prop]))]
    ELSE IF Failed(computed) THEN [self |-> self, out |-> computed]
    ELSE [self |-> [self EXCEPT ![prop] = Some(computed.val)], out |-> computed]

GetNormalizedVertical(self) ==
    CachedGet(self, "normalized_vertical_values", ComputeNormalizedVertical(self))

GetNormalizedHorizontal(self) ==
    CachedGet(self, "normalized_horizontal_values", ComputeNormalizedHorizontal(self))

\* AnalogWaveform.y_axis_extent_magnitude setter, computed in exact rationals
y_axis_extent_magnitude_setter(self, extent_magnitude) ==
    LET lo == type_min(self.y_axis_values.dtype)
        hi == type_max(self.y_axis_values.dtype)
        m == QOfFx(extent_magnitude)
        ratio == QSub(<<1, 2>>, QNorm(Abs(lo) - Abs(hi), Abs(lo - hi) * 2))
        rest == QSub(<<1, 1>>, ratio)
        upper_extent == IF ratio[1] # 0
                        THEN QMul(QMul(ratio, ratio), QDiv(m, QOfInt(hi)))
                        ELSE <<0, 1>>
        lower_extent == IF ratio # <<1, 1>>
                        THEN QMul(QMul(rest, rest), QDiv(m, QOfInt(lo)))
                        ELSE <<0, 1>>
    IN  AnalogWaveform__setattr__(self, "y_axis_spacing",
                                  QToFx(QSub(upper_extent, lower_extent)))

\* IQWaveform.iq_axis_extent_magnitude setter
iq_axis_extent_magnitude_setter(self, extent_magnitude) ==
    LET type_extent == type_max(self.interleaved_iq_axis_values.dtype)
                       - type_min(self.interleaved_iq_axis_values.dtype)
    IN  IQWaveform__setattr__(self, "iq_axis_spacing",
                              QToFx(QDiv(QOfFx(extent_magnitude), QOfInt(type_extent))))

\* the element an assignment into a slice of an integer array stores: the
\* value cast to the element type of the array, wrapping around
SetItemCast(dtype, v) ==
    type_min(dtype) + ((v - type_min(dtype)) % (type_max(dtype) - type_min(dtype) + 1))

\* IQWaveform.i_axis_values / q_axis_values setters.  part is 1 for I, 2 for Q.
\* An empty buffer is first replaced by np.empty(2 * len), whose other half is
\* whatever the allocator left there: fill is that content.
iq_part_setter(self, part, values, fill) ==
    LET cur == self.interleaved_iq_axis_values
        base == IF Len(cur.data) = 0
                THEN IQWaveform__setattr__(self, "interleaved_iq_axis_values",
                        NdArray(values.dtype,
                                [k \in 1..(2 * Len(values.data)) |-> fill]))
                ELSE self
        buf == base.interleaved_iq_axis_values
    IN  [base EXCEPT !.interleaved_iq_axis_values.data =
            [k \in 1..Len(buf.data) |->
                IF k % 2 = part % 2
                THEN SetItemCast(buf.dtype, values.data[(k + 1) \div 2])
                ELSE buf.data[k]]]

----------------------------------------------------------------------------
(* Specifications SpecCache and SpecHorizontal: a caller assigns           *)
(* attributes of a waveform and reads a cached property, in any order.     *)

MaxLen == 2

\* the arrays a caller assigns: the samples 1..n, int8 for odd n, uint8 for even n
Ramp(n) == NdArray(IF n % 2 = 1 THEN "i1" ELSE "u1", [i \in 1..n |-> i])

SampleInputs(kind) ==
    IF kind = "iq" THEN {[Ramp(n) EXCEPT !.data = [i \in 1..(2 * n) |-> i]] : n \in 1..MaxLen}
    ELSE {Ramp(n) : n \in 1..MaxLen}

Spacings == {FxInt(1), FxInt(2)}
Offsets == {0, FxInt(1)}
Triggers == {FxInt(1), FxInt(1) + 1}
Extents(dtype) == {FxInt(k * (type_max(dtype) - type_min(dtype))) : k \in 1..2}

VerticalProp == "normalized_vertical_values"
HorizontalProp == "normalized_horizontal_values"

InitCache ==
    /\ w \in {AnalogWaveform, IQWaveform, DigitalWaveform}
    /\ ret = [op |-> "init"]
    /\ hist = "unread"
    /\ fmt = None
    /\ fd = None

\* bookkeeping of an assignment that touches the inputs of the properties props
Assigned(props) ==
    /\ ret' = [op |-> "assign"]
    /\ hist' = IF VerticalProp \in props /\ hist # "unread" THEN "assigned" ELSE hist
    /\ UNCHANGED <<fmt, fd>>

AssignSamples ==
    \E arr \in SampleInputs(w.kind) :
        /\ w' = Setattr(w, SampleAttr(w.kind), arr)
        /\ Assigned({VerticalProp, HorizontalProp})

AssignSpacing ==
    \E s \in Spacings :
        /\ w.kind \in {"analog", "iq"}
        /\ w' = Setattr(w, IF w.kind = "analog" THEN "y_axis_spacing"
                           ELSE "iq_axis_spacing", s)
        /\ Assigned({VerticalProp})

AssignOffset ==
    \E o \in Offsets :
        /\ w.kind \in {"analog", "iq"}
        /\ w' = Setattr(w, IF w.kind = "analog" THEN "y_axis_offset"
                           ELSE "iq_axis_offset", o)
        /\ Assigned({VerticalProp})

AssignExtentMagnitude ==
    /\ w.kind \in {"analog", "iq"}
    /\ w[SampleAttr(w.kind)].cls # "MeasuredData"
    /\ \E m \in Extents(w[SampleAttr(w.kind)].dtype) :
          w' = IF w.kind = "analog" THEN y_axis_extent_magnitude_setter(w, m)
               ELSE iq_axis_extent_magnitude_setter(w, m)
    /\ Assigned({VerticalProp})

AssignIQPart ==
    /\ w.kind = "iq"
    /\ \E part \in {1, 2}, n \in 1..MaxLen, fill \in 0..1 :
          LET cur == w.interleaved_iq_axis_values
              values == Ramp(n)
          IN  /\ Len(cur.data) = 0 \/ (Len(cur.data) = 2 * n /\ cur.dtype = values.dtype)
              /\ w' = iq_part_setter(w, part, values, fill)
    /\ Assigned({VerticalProp, HorizontalProp})

AssignTriggerIndex ==
    \E t \in Triggers :
        /\ w' = Setattr(w, "trigger_index", Some(t))
        /\ Assigned({HorizontalProp})

AssignXAxisSpacing ==
    \E s \in Spacings :
        /\ w' = Setattr(w, "x_axis_spacing", s)
        /\ Assigned({HorizontalProp})

ReadVertical ==
    LET got == GetNormalizedVertical(w)
    IN  /\ w' = got.self
        /\ ret' = [op |-> VerticalProp, out |-> got.out]
        /\ hist' = IF hist \in {"assigned", "reread"} THEN "reread" ELSE "read"
        /\ UNCHANGED <<fmt, fd>>

ReadHorizontal ==
    LET got == GetNormalizedHorizontal(w)
    IN  /\ w' = got.self
        /\ ret' = [op |-> HorizontalProp, out |-> got.out]
        /\ UNCHANGED <<hist, fmt, fd>>

\* SpecCache: the vertical inputs are assigned and normalized_vertical_values read
NextCache ==
    \/ AssignSamples
    \/ AssignSpacing
    \/ AssignOffset
    \/ AssignExtentMagnitude
    \/ AssignIQPart
    \/ ReadVertical

SpecCache == InitCache /\ [][NextCache]_vars

\* SpecHorizontal: the horizontal inputs are assigned and
\* normalized_horizontal_values read
NextHorizontal ==
    \/ AssignSamples
    \/ AssignIQPart
    \/ AssignTriggerIndex
    \/ AssignXAxisSpacing
    \/ ReadHorizontal

SpecHorizontal == InitCache /\ [][NextHorizontal]_vars

\* C4: on an AnalogWaveform every read of normalized_vertical_values returns
\* what the current y_axis_values, y_axis_spacing and y_axis_offset give,
\* whatever assignments (the extent magnitude included) came before it.
C4_VerticalNeverStale ==
    (w.kind = "analog" /\ ret.op = VerticalProp)
        => ret.out = ComputeNormalizedVertical(w)

\* a successful read that follows an earlier read and a later assignment
C4_Witness ==
    /\ w.kind = "analog" /\ ret.op = VerticalProp
    /\ hist = "reread" /\ ~Failed(ret.out)
    /\ w.y_axis_spacing # FxInt(1) /\ w.y_axis_offset # 0

\* C5: on every waveform a read of normalized_horizontal_values returns what the
\* current trigger_index, x_axis_spacing and sample array give.
C5_HorizontalNeverStale ==
    ret.op = HorizontalProp => ret.out = ComputeNormalizedHorizontal(w)

\* C6: on an IQWaveform and a DigitalWaveform every read of
\* normalized_vertical_values returns what the current inputs give.
C6_VerticalNeverStaleIQDigital ==
    (w.kind \in {"iq", "digital"} /\ ret.op = VerticalProp)
        => ret.out = ComputeNormalizedVertical(w)

----------------------------------------------------------------------------
(* Byte data types (helpers/byte_data_types.py) and struct packing.        *)
(* endian is the struct prefix: ">" big-endian, "<" little-endian, "@" the *)
(* platform's native order.                                                *)

RECURSIVE Concat(_)
Concat(seqs) == IF seqs = <<>> THEN <<>> ELSE Head(seqs) \o Concat(Tail(seqs))

Rev(s) == [i \in 1..Len(s) |-> s[Len(s) + 1 - i]]

RECURSIVE SumFromTo(_, _, _)
SumFromTo(s, lo, hi) ==
    IF lo > hi THEN 0
    ELSE IF lo = hi THEN s[lo]
    ELSE LET mid == (lo + hi) \div 2
         IN  SumFromTo(s, lo, mid) + SumFromTo(s, mid + 1, hi)

\* sum(bytes)
ByteSum(s) == SumFromTo(s, 1, Len(s))

Zeros(n) == [i \in 1..n |-> 0]

\* struct's "Ns": the first n bytes of b, padded with NUL bytes
PackS(n, b) == [i \in 1..n |-> IF i <= Len(b) THEN b[i] ELSE 0]

\* the byte order struct has no prefix for: the order of the machine
NativeOrder == "<"

Ordered(endian, be) ==
    IF endian = ">" \/ (endian = "@" /\ NativeOrder = ">") THEN be ELSE Rev(be)

\* the class attributes struct_repr, length and tek_meta of each ByteData class
ByteType(t) ==
    CASE t = "Char"             -> [repr |-> "c", length |-> 1, tek_meta |-> 1]
      [] t = "SignedChar"       -> [repr |-> "b", length |-> 1, tek_meta |-> 0]
      [] t = "UnsignedChar"     -> [repr |-> "B", length |-> 1, tek_meta |-> 0]
      [] t = "Short"            -> [repr |-> "h", length |-> 2, tek_meta |-> 0]
      [] t = "UnsignedShort"    -> [repr |-> "H", length |-> 2, tek_meta |-> 0]
      [] t = "Int"              -> [repr |-> "i", length |-> 4, tek_meta |-> 2]
      [] t = "UnsignedInt"      -> [repr |-> "I", length |-> 4, tek_meta |-> 4]
      [] t = "Long"             -> [repr |-> "l", length |-> 4, tek_meta |-> 2]
      [] t = "UnsignedLong"     -> [repr |-> "L", length |-> 4, tek_meta |-> 4]
      [] t = "LongLong"         -> [repr |-> "q", length |-> 8, tek_meta |-> 0]
      [] t = "UnsignedLongLong" -> [repr |-> "Q", length |-> 8, tek_meta |-> 0]
      [] t = "Float"            -> [repr |-> "f", length |-> 4, tek_meta |-> 0]
      [] t = "Double"           -> [repr |-> "d", length |-> 8, tek_meta |-> 3]
      [] t = "String8"          -> [repr |-> "s", length |-> 8, tek_meta |-> 1]
      [] t = "String20"         -> [repr |-> "s", length |-> 20, tek_meta |-> 1]
      [] t = "String32"         -> [repr |-> "s", length |-> 32, tek_meta |-> 1]

IsString(t) == ByteType(t).repr \in {"s", "c"}
IsSigned(t) == ByteType(t).repr \in {"b", "h", "i", "l", "q"}
IsUnsigned(t) == ByteType(t).repr \in {"B", "H", "I", "L", "Q"}

\* the largest whole number the model holds; a decoded unsigned value that does
\* not fit is reported as this one (it exceeds every length of a modelled file)
MaxInt == Pow2(30) + (Pow2(30) - 1)

\* big-endian bytes of the whole number v in two's complement
IntBytesBE(v, width) == Rev(IntBytesLE(v, width))

UIntOfBE(b) ==
    LET n == Len(b)
        high == {i \in 1..n : i <= n - 4 /\ b[i] # 0}
        lo4 == [i \in 1..4 |-> IF n - 4 + i >= 1 THEN b[n - 4 + i] ELSE 0]
    IN  IF high # {} \/ lo4[1] >= 128 THEN MaxInt
        ELSE ((lo4[1] * 256 + lo4[2]) * 256 + lo4[3]) * 256 + lo4[4]

IntOfBE(b) ==
    IF b[1] < 128 THEN UIntOfBE(b)
    ELSE 0 - UIntOfBE([i \in 1..Len(b) |-> 255 - b[i]]) - 1

\* the float 4.0e-7 (the default scale of setup_implicit_dimensions), which no
\* fixed-point float equals: it has a code of its own
Scale4e7 == 0 - Pow2(30)
Scale4e7Bytes == <<62, 154, 215, 242, 154, 188, 175, 72>>

\* IEEE-754 binary64 of the float h/2, big-endian
DoubleBytesBE(h) ==
    IF h = 0 THEN Zeros(8)
    ELSE IF h = Scale4e7 THEN Scale4e7Bytes
    ELSE LET a == Abs(h)
             e2 == Log2Floor(a)
             biased == 1023 + e2 - 1
             m20 == (a - Pow2(e2)) * Pow2(20 - e2)
             s == IF h < 0 THEN 128 ELSE 0
         IN  <<s + biased \div 16, (biased % 16) * 16 + m20 \div 65536,
               (m20 \div 256) % 256, m20 % 256, 0, 0, 0, 0>>

\* the float of IEEE-754 binary64 bytes, in halves; a magnitude that does not
\* fit is reported as MaxInt, one below half a unit as 0
DoubleOfBE(b) ==
    LET biased == (b[1] % 128) * 16 + b[2] \div 16
        m20 == (b[2] % 16) * 65536 + b[3] * 256 + b[4]
        e2 == biased - 1023 + 1
        mag == IF e2 >= 30 THEN MaxInt
               ELSE IF e2 >= 20 THEN (Pow2(20) + m20) * Pow2(e2 - 20)
               ELSE IF e2 < 0 THEN 0
               ELSE (Pow2(20) + m20) \div Pow2(20 - e2)
    IN  IF biased = 0 THEN 0
        ELSE IF b = Scale4e7Bytes THEN Scale4e7
        ELSE IF b[1] >= 128 THEN 0 - mag ELSE mag

\* IEEE-754 binary32 of the float h/2, big-endian
FloatBytesBE(h) ==
    IF h = 0 THEN Zeros(4)
    ELSE LET a == Abs(h)
             e2 == Log2Floor(a)
             biased == 127 + e2 - 1
             m23 == (a - Pow2(e2)) * Pow2(23 - e2)
             s == IF h < 0 THEN 128 ELSE 0
         IN  <<s + biased \div 2, (biased % 2) * 128 + m23 \div 65536,
               (m23 \div 256) % 256, m23 % 256>>

FloatOfBE(b) ==
    LET biased == (b[1] % 128) * 2 + b[2] \div 128
        m23 == (b[2] % 128) * 65536 + b[3] * 256 + b[4]
        e2 == biased - 127 + 1
        mag == IF e2 >= 23 THEN (Pow2(23) + m23) * Pow2(e2 - 23)
               ELSE (Pow2(23) + m23) \div Pow2(23 - e2)
    IN  IF biased = 0 THEN 0
        ELSE IF b[1] >= 128 THEN 0 - mag ELSE mag

\* does struct accept v for the format of t (struct.error otherwise)
Packable(t, v) ==
    LET n == ByteType(t).length
    IN  CASE IsUnsigned(t) -> v >= 0 /\ (n >= 4 \/ v < Pow2(8 * n))
          [] IsSigned(t) -> n >= 4 \/ (v >= 0 - Pow2(8 * n - 1) /\ v < Pow2(8 * n - 1))
          [] OTHER -> TRUE

\* the size of a C long where struct packs without a byte order prefix (LP64)
NativeLongSize == 8

\* struct.pack(endian + t.struct_repr, v)
Pack(endian, t, v) ==
    LET n == IF endian = "@" /\ ByteType(t).repr \in {"l", "L"} THEN NativeLongSize
             ELSE ByteType(t).length
    IN  CASE IsString(t) -> PackS(n, v)
          [] t = "Double" -> Ordered(endian, DoubleBytesBE(v))
          [] t = "Float" -> Ordered(endian, FloatBytesBE(v))
          [] OTHER -> Ordered(endian, IntBytesBE(v, n))

\* struct.unpack(endian + t.struct_repr, b) for Len(b) = t.length
Unpack(endian, t, b) ==
    CASE IsString(t) -> b
      [] t = "Double" -> DoubleOfBE(Ordered(endian, b))
      [] t = "Float" -> FloatOfBE(Ordered(endian, b))
      [] IsSigned(t) -> IntOfBE(Ordered(endian, b))
      [] OTHER -> UIntOfBE(Ordered(endian, b))


\* ByteData.get_value_summation: the bytes of the value packed without a byte
\* order prefix; String.get_value_summation: every byte of the value
get_value_summation(t, v) ==
    IF IsString(t) THEN ByteSum(v)
    ELSE ByteSum(Pack("@", t, v))

\* filestream.read(n) at offset pos
ReadAt(stream, pos, n) ==
    IF pos >= Len(stream) THEN <<>>
    ELSE SubSeq(stream, pos + 1, IF Len(stream) - pos < n THEN Len(stream) ELSE pos + n)

----------------------------------------------------------------------------
(* The "tekmeta!" block (WfmFormat._write_tekmeta, WfmFormat.parse_tekmeta)*)
(* A dict is the sequence of its <<key, value>> items in insertion order.  *)
(* A str (a key, a text value) is the sequence of its code points.  A      *)
(* value is a record [t, v]: t is the Python type ("str", "bytes", "int",  *)
(* "float") or the ByteData class of the object.                           *)

Tag == <<116, 101, 107, 109, 101, 116, 97, 33>>

\* str.encode("utf_8") of one code point (below U+10000)
Utf8(cp) ==
    IF cp < 128 THEN <<cp>>
    ELSE IF cp < 2048 THEN <<192 + (cp \div 64), 128 + (cp % 64)>>
    ELSE <<224 + (cp \div 4096), 128 + ((cp \div 64) % 64), 128 + (cp % 64)>>

Encode(chars) == Concat([i \in 1..Len(chars) |-> Utf8(chars[i])])

IsCont(b) == b >= 128 /\ b < 192

\* bytes.decode("utf_8"): the code points, or UnicodeDecodeError
RECURSIVE Decode(_)
Decode(b) ==
    IF b = <<>> THEN Ok(<<>>)
    ELSE LET n == CASE b[1] < 128 -> 1
                    [] b[1] >= 194 /\ b[1] < 224 -> 2
                    [] b[1] >= 224 /\ b[1] < 240 -> 3
                    [] OTHER -> 0
             wellFormed ==
                /\ n > 0 /\ Len(b) >= n
                /\ \A i \in 2..n : IsCont(b[i])
                /\ n = 3 => /\ (b[1] = 224 => b[2] >= 160)
                            /\ (b[1] = 237 => b[2] < 160)
             cp == CASE n = 1 -> b[1]
                     [] n = 2 -> (b[1] - 192) * 64 + (b[2] - 128)
                     [] OTHER -> ((b[1] - 224) * 64 + (b[2] - 128)) * 64 + (b[3] - 128)
         IN  IF ~wellFormed THEN Raise("UnicodeDecodeError")
             ELSE LET rest == Decode(SubSeq(b, n + 1, Len(b)))
                  IN  IF Failed(rest) THEN rest ELSE Ok(<<cp>> \o rest.val)

\* String.__new__ on a str: ljust to the class length in characters, then
\* encoded; never cut
StringOf(t, chars) ==
    Encode(chars \o Zeros(IF Len(chars) < ByteType(t).length
                          THEN ByteType(t).length - Len(chars) ELSE 0))

DictKeys(d) == {d[i][1] : i \in 1..Len(d)}
DictGet(d, k) == d[CHOOSE i \in 1..Len(d) : d[i][1] = k][2]
\* d[k] = v
DictSet(d, k, v) ==
    IF k \in DictKeys(d)
    THEN [i \in 1..Len(d) |-> IF d[i][1] = k THEN <<k, v>> ELSE d[i]]
    ELSE Append(d, <<k, v>>)

\* one item of the block as _write_tekmeta emits it
WriteTekmetaItem(endian, key, value) ==
    LET keyBytes == Pack(endian, "UnsignedLong", Len(key)) \o PackS(Len(key), Encode(key))
        builtin == value.t \in {"str", "bytes", "int", "float"}
        type_indicator == CASE value.t \in {"str", "bytes"} -> 1
                            [] value.t = "int" -> 2
                            [] value.t = "float" -> 3
                            [] OTHER -> ByteType(value.t).tek_meta
        byte_type == CASE value.t = "int" -> "Long"
                       [] value.t = "float" -> "Double"
                       [] OTHER -> value.t
        encoded == IF value.t = "str" THEN Encode(value.v) ELSE value.v
    IN  IF type_indicator = 1
        THEN Ok(keyBytes \o <<1>> \o Pack(endian, "UnsignedLong", Len(value.v))
                \o PackS(Len(encoded), encoded))
        ELSE IF ~Packable(byte_type, value.v)
        THEN RaiseAfter(Raise("struct.error"), keyBytes \o <<type_indicator>>)
        ELSE Ok(keyBytes \o <<type_indicator>> \o Pack(endian, byte_type, value.v))

RECURSIVE WriteTekmetaItems(_, _)
WriteTekmetaItems(endian, items) ==
    IF items = <<>> THEN Ok(<<>>)
    ELSE LET one == WriteTekmetaItem(endian, Head(items)[1], Head(items)[2])
             rest == WriteTekmetaItems(endian, Tail(items))
         IN  IF Failed(one) THEN one
             ELSE IF Failed(rest) THEN RaiseAfter(rest, one.val \o rest.val)
             ELSE Ok(one.val \o rest.val)

\* WfmFormat._write_tekmeta: the bytes appended to the file, also when an item
\* raises
write_tekmeta(endian, meta_data) ==
    [WriteTekmetaItems(endian, meta_data) EXCEPT
        !.val = Pack(endian, "String8", Tag)
                \o Pack(endian, "UnsignedLong", Len(meta_data)) \o @]

\* chunk.find(b"tekmeta!"): the 0-based index of the first match, or -1
FindTag(chunk) ==
    LET hits == {i \in 1..(Len(chunk) - 7) : SubSeq(chunk, i, i + 7) = Tag}
    IN  IF hits = {} THEN 0 - 1 ELSE (CHOOSE i \in hits : \A j \in hits : i <= j) - 1

\* the chunk size of the scan for the tag
ChunkSize == 1024

\* the scan loop of parse_tekmeta: the stream position it leaves
RECURSIVE ScanFrom(_, _)
ScanFrom(stream, current_pos) ==
    LET chunk == ReadAt(stream, current_pos, ChunkSize)
        marker_pos == FindTag(chunk)
    IN  IF chunk = <<>> THEN current_pos
        ELSE IF marker_pos # 0 - 1 THEN current_pos + marker_pos
        ELSE IF Len(chunk) < ChunkSize THEN current_pos + Len(chunk)
        ELSE ScanFrom(stream, current_pos + Len(chunk))

\* cls.unpack(endian.struct, filestream) at pos: the value and the new position
UnpackAt(endian, t, stream, pos) ==
    LET b == ReadAt(stream, pos, ByteType(t).length)
    IN  IF Len(b) # ByteType(t).length THEN Raise("struct.error")
        ELSE [err |-> "", val |-> Unpack(endian, t, b), pos |-> pos + Len(b)]

\* struct.unpack(f"{endian}{n}s", filestream.read(n)) at pos
UnpackBytesAt(stream, pos, n) ==
    LET b == ReadAt(stream, pos, n)
    IN  IF Len(b) # n THEN Raise("struct.error")
        ELSE [err |-> "", val |-> b, pos |-> pos + Len(b)]

MetadataUnreadable == Raise("IOError: Metadata unreadable")

\* the rest of one pass of the element loop of parse_tekmeta, the key read and
\* ind the read of its type indicator
ParseValue(endian, stream, meta_data, key, ind) ==
    LET type_indicator == ind.val[1]
        value_size == UnpackAt(endian, "UnsignedLong", stream, ind.pos)
        text == UnpackBytesAt(stream, value_size.pos, value_size.val)
        cls == CASE type_indicator = 2 -> "Long"
                 [] type_indicator = 3 -> "Double"
                 [] OTHER -> "UnsignedLong"
        number == UnpackAt(endian, cls, stream, ind.pos)
        decoded == Decode(key)
    IN  IF Failed(ind) THEN ind
        ELSE IF type_indicator = 1
        THEN IF Failed(value_size) THEN value_size
             ELSE IF Failed(text) THEN text
             ELSE IF Failed(decoded) THEN MetadataUnreadable
             ELSE [err |-> "", pos |-> text.pos,
                   val |-> DictSet(meta_data, decoded.val, [t |-> "bytes", v |-> text.val])]
        ELSE IF type_indicator \notin {2, 3, 4} THEN MetadataUnreadable
        ELSE IF Failed(number) THEN number
        ELSE IF Failed(decoded) THEN MetadataUnreadable
        ELSE [err |-> "", pos |-> number.pos,
              val |-> DictSet(meta_data, decoded.val, [t |-> cls, v |-> number.val])]

\* one pass of the loop of parse_tekmeta: the key, then its value by ParseValue
ParseEntry(endian, stream, pos, meta_data) ==
    LET key_size == UnpackAt(endian, "UnsignedLong", stream, pos)
        key == UnpackBytesAt(stream, key_size.pos, key_size.val)
    IN  IF Failed(key_size) THEN key_size
        ELSE IF Failed(key) THEN key
        ELSE ParseValue(endian, stream, meta_data, key.val,
                        UnpackAt(endian, "Char", stream, key.pos))

RECURSIVE ParseEntries(_, _, _, _, _)
ParseEntries(endian, stream, pos, count, meta_data) ==
    IF count = 0 THEN [err |-> "", val |-> meta_data, pos |-> pos]
    ELSE LET one == ParseEntry(endian, stream, pos, meta_data)
         IN  IF Failed(one) THEN one
             ELSE ParseEntries(endian, stream, one.pos, count - 1, one.val)

\* parse_tekmeta letting the struct.error of a missing tag escape
parse_tekmetaTagRequired(endian, stream, pos) ==
    LET at == ScanFrom(stream, pos)
        tek_meta == UnpackAt(endian, "String8", stream, at)
        element_count == UnpackAt(endian, "UnsignedLong", stream, tek_meta.pos)
    IN  IF Failed(tek_meta) THEN Raise("struct.error")
        ELSE IF tek_meta.val # Tag THEN Raise("IOError: Unrecognizable post-amble prefix")
        ELSE IF Failed(element_count) THEN element_count
        ELSE ParseEntries(endian, stream, element_count.pos, element_count.val, <<>>)

\* WfmFormat.parse_tekmeta with the stream at pos: the dict, or the exception
parse_tekmeta(endian, stream, pos) ==
    LET at == ScanFrom(stream, pos)
        tek_meta == UnpackAt(endian, "String8", stream, at)
        element_count == UnpackAt(endian, "UnsignedLong", stream, tek_meta.pos)
    IN  IF Failed(tek_meta) THEN [err |-> "", val |-> <<>>, pos |-> at + Len(ReadAt(stream, at, 8))]
        ELSE IF tek_meta.val # Tag THEN Raise("IOError: Unrecognizable post-amble prefix")
        ELSE IF Failed(element_count) THEN element_count
        ELSE ParseEntries(endian, stream, element_count.pos, element_count.val, <<>>)

----------------------------------------------------------------------------
(* SpecTekmeta: a metadata dict is filled in, written as a tekmeta block, *)
(* possibly damaged, and parsed back.                                      *)

\* the most entries of a metadata dict
MaxMeta == 2

\* keys: "a", "ab" and "µ" (one character, two bytes in UTF-8)
MetaKeys == {<<97>>, <<97, 98>>, <<181>>}

\* values: i32, f64, u32, a byte string, an ASCII text and a non-ASCII text
MetaValues ==
    <<[t |-> "int", v |-> 0 - 2], [t |-> "float", v |-> 3],
      [t |-> "UnsignedLong", v |-> 7], [t |-> "bytes", v |-> <<0, 255>>],
      [t |-> "str", v |-> <<104, 105>>], [t |-> "str", v |-> <<181>>]>>

Endians == {"<", ">"}

InitTekmeta ==
    /\ w = None
    /\ ret = [op |-> "init"]
    /\ hist = "none"
    /\ fmt = [meta_data |-> <<>>]
    /\ fd = None

\* formatted_data.meta_data[key] = value
SetMetaData ==
    \E key \in MetaKeys, i \in DOMAIN MetaValues :
        /\ fd = None
        /\ key \in DictKeys(fmt.meta_data) \/ Len(fmt.meta_data) < MaxMeta
        /\ fmt' = [fmt EXCEPT !.meta_data = DictSet(@, key, MetaValues[i])]
        /\ ret' = [op |-> "set"]
        /\ UNCHANGED <<w, hist, fd>>

\* _write_tekmeta(endian, filestream) on an empty file
WriteTekmeta ==
    \E endian \in Endians :
        LET out == write_tekmeta(endian, fmt.meta_data)
        IN  /\ fd = None
            /\ ~Failed(out)
            /\ fd' = [endian |-> endian, bytes |-> out.val]
            /\ hist' = "intact"
            /\ ret' = [op |-> "write"]
            /\ UNCHANGED <<w, fmt>>

\* the offset in the block of item k (1-based) of the dict
ItemOffset(endian, meta_data, k) ==
    8 + 4 + Len(WriteTekmetaItems(endian, SubSeq(meta_data, 1, k - 1)).val)

\* the file loses its tail: the tag stays, the block is cut short
Truncate ==
    /\ hist = "intact"
    /\ \E n \in 8..(Len(fd.bytes) - 1) :
            fd' = [fd EXCEPT !.bytes = SubSeq(@, 1, n)]
    /\ hist' = "truncated"
    /\ ret' = [op |-> "damage"]
    /\ UNCHANGED <<w, fmt>>

\* the type indicator of an item is overwritten with one that names no type
UnknownTypeIndicator ==
    /\ hist = "intact"
    /\ \E k \in 1..Len(fmt.meta_data), bad \in {0, 5, 255} :
            LET at == ItemOffset(fd.endian, fmt.meta_data, k)
                          + 4 + Len(fmt.meta_data[k][1]) + 1
            IN  fd' = [fd EXCEPT !.bytes[at] = bad]
    /\ hist' = "bad_type"
    /\ ret' = [op |-> "damage"]
    /\ UNCHANGED <<w, fmt>>

\* the first byte of the key of an item is overwritten with one UTF-8 never has
InvalidKey ==
    /\ hist = "intact"
    /\ \E k \in 1..Len(fmt.meta_data) :
            LET at == ItemOffset(fd.endian, fmt.meta_data, k) + 4 + 1
            IN  fd' = [fd EXCEPT !.bytes[at] = 255]
    /\ hist' = "bad_key"
    /\ ret' = [op |-> "damage"]
    /\ UNCHANGED <<w, fmt>>

\* WfmFormat.parse_tekmeta(endian, filestream) from the start of the block
ParseTekmeta ==
    /\ fd # None
    /\ ret.op # "parse"
    /\ ret' = [op |-> "parse", out |-> parse_tekmeta(fd.endian, fd.bytes, 0)]
    /\ UNCHANGED <<w, hist, fmt, fd>>

NextTekmeta ==
    \/ SetMetaData
    \/ WriteTekmeta
    \/ Truncate
    \/ UnknownTypeIndicator
    \/ InvalidKey
    \/ ParseTekmeta

SpecTekmeta == InitTekmeta /\ [][NextTekmeta]_vars

\* a parsed value equals the written one: the same number, or the same bytes
\* (a text compared by its UTF-8 encoding)
SameValue(written, parsed) ==
    CASE written.t \in {"int", "Long"} -> parsed.t = "Long" /\ parsed.v = written.v
      [] written.t \in {"float", "Double"} -> parsed.t = "Double" /\ parsed.v = written.v
      [] written.t = "UnsignedLong" -> parsed.t = "UnsignedLong" /\ parsed.v = written.v
      [] written.t = "bytes" -> parsed.t = "bytes" /\ parsed.v = written.v
      [] OTHER -> parsed.t = "bytes" /\ parsed.v = Encode(written.v)

SameDict(written, parsed) ==
    /\ DictKeys(parsed) = DictKeys(written)
    /\ \A k \in DictKeys(written) : SameValue(DictGet(written, k), DictGet(parsed, k))

\* C8: a dict written by _write_tekmeta and parsed by parse_tekmeta in the same
\* byte order comes back with the same keys and equal values, and the written
\* element_count is the number of entries, for keys and text of any UTF-8
\* content
C8_TekmetaRoundTrip ==
    (ret.op = "parse" /\ hist = "intact") =>
        /\ ~Failed(ret.out)
        /\ SameDict(fmt.meta_data, ret.out.val)
        /\ Unpack(fd.endian, "UnsignedLong", SubSeq(fd.bytes, 9, 12)) = Len(fmt.meta_data)

\* C10: whenever the tag is found and a following record is malformed (unknown
\* type_indicator, key that is not UTF-8, or a count or size running past EOF)
\* parsing fails with the IOError "Metadata unreadable, ..."
C10_MalformedIsMetadataUnreadable ==
    (ret.op = "parse" /\ hist \in {"truncated", "bad_type", "bad_key"}) =>
        ret.out = MetadataUnreadable

----------------------------------------------------------------------------
(* Structured records (helpers/byte_data_class.py, wfm_data_classes.py).   *)
(* A record object is a TLA+ record of its field values; Layout gives the  *)
(* annotated fields of each class in declaration order.                    *)

Layout(cls) ==
    CASE cls = "WaveformStaticFileInfo" ->
          <<<<"digits_in_byte_count", "UnsignedChar">>,
            <<"bytes_till_eof", "UnsignedLong">>,
            <<"bytes_per_point", "UnsignedChar">>,
            <<"byte_offset", "Long">>,
            <<"horizontal_zoom_scale_factor", "Long">>,
            <<"horizontal_zoom_position", "Float">>,
            <<"vertical_zoom_scale_factor", "Double">>,
            <<"vertical_zoom_position", "Float">>,
            <<"waveform_label", "String32">>,
            <<"number_of_frames", "UnsignedLong">>,
            <<"header_size", "UnsignedShort">>>>
      [] cls = "WaveformHeader" ->
          <<<<"waveform_type", "Int">>,
            <<"wfm_count", "UnsignedLong">>,
            <<"acquisition_counter", "UnsignedLongLong">>,
            <<"transaction_stamp", "UnsignedLongLong">>,
            <<"slot_id", "Int">>,
            <<"is_static", "Int">>,
            <<"update_spec_cnt", "UnsignedLong">>,
            <<"imp_dim_ref_cnt", "UnsignedLong">>,
            <<"exp_dim_ref_cnt", "UnsignedLong">>,
            <<"data_type", "Int">>,
            <<"gen_purpose_counter", "UnsignedLongLong">>,
            <<"accumulate_wfm_cnt", "UnsignedLong">>,
            <<"target_accumulation_cnt", "UnsignedLong">>,
            <<"curve_ref_cnt", "UnsignedLong">>,
            <<"num_requested_fast_frames", "UnsignedLong">>,
            <<"num_acquired_fast_frames", "UnsignedLong">>>>
      [] cls = "PixMap" ->
          <<<<"pix_map_displ_format", "Int">>,
            <<"pix_map_max_value", "UnsignedLongLong">>>>
      [] cls = "ExplicitDimensions" ->
          <<<<"scale", "Double">>,
            <<"offset", "Double">>,
            <<"size", "UnsignedLong">>,
            <<"units", "String20">>,
            <<"extent_min", "Double">>,
            <<"extent_max", "Double">>,
            <<"resolution", "Double">>,
            <<"reference_point", "Double">>,
            <<"format", "Int">>,
            <<"storage_type", "Int">>,
            <<"null_value", "Int">>,
            <<"over_range", "Int">>,
            <<"under_range", "Int">>,
            <<"high_range", "Int">>,
            <<"low_range", "Int">>>>
      [] cls = "ImplicitDimensions" ->
          <<<<"scale", "Double">>,
            <<"offset", "Double">>,
            <<"size", "UnsignedLong">>,
            <<"units", "String20">>,
            <<"extent_min", "Double">>,
            <<"extent_max", "Double">>,
            <<"resolution", "Double">>,
            <<"reference_point", "Double">>,
            <<"spacing", "UnsignedLong">>>>
      [] cls = "DimensionsUserViewVer12" ->
          <<<<"scale", "Double">>,
            <<"units", "String20">>,
            <<"offset", "Double">>,
            <<"point_density", "UnsignedLong">>,
            <<"horizontal_reference", "Double">>,
            <<"trigger_delay", "Double">>>>
      [] cls = "DimensionsUserViewVer3" ->
          <<<<"scale", "Double">>,
            <<"units", "String20">>,
            <<"offset", "Double">>,
            <<"point_density", "Double">>,
            <<"horizontal_reference", "Double">>,
            <<"trigger_delay", "Double">>>>
      [] cls = "TimeBaseInformation" ->
          <<<<"real_point_spacing", "UnsignedLong">>,
            <<"sweep", "Int">>,
            <<"type_of_base", "Int">>>>
      [] cls = "UpdateSpecifications" ->
          <<<<"real_point_offset", "UnsignedLong">>,
            <<"trigger_time_offset", "Double">>,
            <<"fractional_second", "Double">>,
            <<"gmt_second", "Long">>>>
      [] cls = "CurveInformation" ->
          <<<<"state_flags", "UnsignedLong">>,
            <<"check_sum_type", "Int">>,
            <<"check_sum", "Short">>,
            <<"precharge_start_offset", "UnsignedLong">>,
            <<"data_start_offset", "UnsignedLong">>,
            <<"postcharge_start_offset", "UnsignedLong">>,
            <<"postcharge_stop_offset", "UnsignedLong">>,
            <<"end_of_curve_buffer_offset", "UnsignedLong">>>>

FieldCount(cls) == Len(Layout(cls))
FieldName(cls, i) == Layout(cls)[i][1]
FieldType(cls, i) == Layout(cls)[i][2]

\* StructuredInfo.get_cls_length and __len__
get_cls_length(cls) ==
    ByteSum([i \in 1..FieldCount(cls) |-> ByteType(FieldType(cls, i)).length])

\* the offset of field i in the packed record
FieldOffset(cls, i) ==
    ByteSum([j \in 1..(i - 1) |-> ByteType(FieldType(cls, j)).length])

\* struct.pack accepts every field value
RecordPackable(cls, rec) ==
    \A i \in 1..FieldCount(cls) : Packable(FieldType(cls, i), rec[FieldName(cls, i)])

\* StructuredInfo.pack(endian, filestream, in_order=True): the bytes written
PackRecord(endian, cls, rec) ==
    Concat([i \in 1..FieldCount(cls) |->
               Pack(endian, FieldType(cls, i), rec[FieldName(cls, i)])])

\* StructuredInfo.get_value_summation
RecordSummation(cls, rec) ==
    ByteSum([i \in 1..FieldCount(cls) |->
                get_value_summation(FieldType(cls, i), rec[FieldName(cls, i)])])

\* chr(character).isalpha() for a byte value
IsAlphaByte(b) ==
    \/ b \in 65..90 \/ b \in 97..122
    \/ b \in {170, 181, 186}
    \/ b \in 192..214 \/ b \in 216..246 \/ b \in 248..255

\* convert_to_type on a bytes value: the leading alphabetic characters, which
\* pydantic then encodes to bytes again
AlphaPrefix(b) ==
    LET stops == {i \in 1..Len(b) : ~IsAlphaByte(b[i])}
        n == IF stops = {} THEN Len(b)
             ELSE (CHOOSE i \in stops : \A j \in stops : i <= j) - 1
    IN  Encode(SubSeq(b, 1, n))

\* a String field given a str or a bytes value: a str is padded and encoded, of
\* bytes the leading alphabetic run is kept
StringField(t, value) ==
    IF value.t = "bytes" THEN AlphaPrefix(value.v) ELSE StringOf(t, value.v)

\* cls(**values) on unpacked values: EnforcedTypeDataClass.validate
Validated(cls, values) ==
    [f \in DOMAIN values |->
        LET i == CHOOSE j \in 1..FieldCount(cls) : FieldName(cls, j) = f
        IN  IF IsString(FieldType(cls, i)) THEN AlphaPrefix(values[f]) ELSE values[f]]

\* StructuredInfo.unpack(endian, filestream, in_order=True) at pos
UnpackRecord(endian, cls, stream, pos) ==
    LET length == get_cls_length(cls)
        b == ReadAt(stream, pos, length)
        field(i) == SubSeq(b, FieldOffset(cls, i) + 1,
                           FieldOffset(cls, i) + ByteType(FieldType(cls, i)).length)
        names == {FieldName(cls, i) : i \in 1..FieldCount(cls)}
        info == [f \in names |->
                    LET i == CHOOSE j \in 1..FieldCount(cls) : FieldName(cls, j) = f
                    IN  Unpack(endian, FieldType(cls, i), field(i))]
    IN  IF Len(b) # length THEN Raise("struct.error")
        ELSE [err |-> "", val |-> Validated(cls, info), pos |-> pos + length]

----------------------------------------------------------------------------
(* The WFM assembler (WfmFormat).  The object is a record of its           *)
(* attributes; "assigned" is the set of attributes in the instance         *)
(* __dict__ (the others still read the class defaults).  A two-slot        *)
(* Dimension is [cls, first, second]: cls the record class of its slots,   *)
(* second None until filled.  A setup helper returns the assembler it      *)
(* leaves, or the exception it raises.                                     *)

WfmFormat ==
    [file_info |-> None, header |-> None, summary_frame_type |-> None,
     pixel_map |-> None, explicit_dimensions |-> None, explicit_user_view |-> None,
     implicit_dimensions |-> None, implicit_user_view |-> None, time_info |-> None,
     update_specifications |-> None, curve_info |-> None,
     update_specs |-> <<>>, curve_specs |-> <<>>,
     precharge_buffer |-> NdArray("f8", <<>>), curve_buffer |-> NdArray("f8", <<>>),
     postcharge_buffer |-> NdArray("f8", <<>>),
     file_checksum |-> None, meta_data |-> <<>>, assigned |-> {}]

\* self.<name> = value
SetAttr(self, name, value) ==
    [self EXCEPT ![name] = value, !.assigned = @ \cup {name}]

VersionONE == <<58, 87, 70, 77, 35, 48, 48, 49>>
VersionTWO == <<58, 87, 70, 77, 35, 48, 48, 50>>
VersionTHREE == <<58, 87, 70, 77, 35, 48, 48, 51>>
Versions == {VersionONE, VersionTWO, VersionTHREE}

\* ByteOrderFormat and WFMFile._ENDIAN_PREFIX_LOOKUP
INTEL == <<240, 240>>
PPC == <<15, 15>>
EndianPrefix(format) ==
    CASE format = INTEL -> [struct |-> ">", format |-> INTEL]
      [] format = PPC -> [struct |-> "<", format |-> PPC]

UserViewClass(version_number) ==
    IF version_number = VersionTHREE THEN "DimensionsUserViewVer3"
    ELSE "DimensionsUserViewVer12"

\* WfmFormat._replace_dimension
replace_dimension(dimension, cls, data_class) ==
    IF dimension # None
    THEN Some([The(dimension) EXCEPT !.second = Some(data_class)])
    ELSE Some([cls |-> cls, first |-> data_class, second |-> None])

\* CurveFormatsVer3 by numpy dtype (WFMFile._CURVE_FORMAT_LOOKUP)
EXPLICIT_NO_DIMENSION == 9
EXPLICIT_INVALID_STORAGE == 6
EXPLICIT_MIN_MAX == 1
CurveFormat(dtype) ==
    CASE dtype = "i2" -> 0
      [] dtype = "i4" -> 1
      [] dtype = "u4" -> 2
      [] dtype = "u8" -> 3
      [] dtype = "f4" -> 4
      [] dtype = "f8" -> 5
      [] dtype = "u1" -> 6
      [] dtype = "i1" -> 7

\* the np_repr of the class _get_curve_information looks up for a format code
CurveDType(format) ==
    CASE format = 0 -> "i2"
      [] format = 1 -> "i4"
      [] format = 2 -> "u4"
      [] format = 3 -> "u8"
      [] format = 4 -> "f4"
      [] format = 5 -> "f8"
      [] format = 6 -> "u1"
      [] format = 7 -> "i1"

\* the keyword defaults of setup_explicit_dimensions
ExplicitArgs ==
    [scale |-> FxInt(1), offset |-> 0, size |-> 0, units |-> UnitV,
     extent_range |-> <<0, 0>>, resolution |-> FxInt(1), reference_point |-> 0,
     curve_format |-> 0, storage_type |-> 0, invalid_data |-> 0,
     over_range |-> 0, under_range |-> 0, value_range |-> <<0, 0>>]

setup_explicit_dimensions(self, a) ==
    LET explicit_dimensions ==
            [scale |-> a.scale, offset |-> a.offset, size |-> a.size,
             units |-> StringField("String20", a.units),
             extent_min |-> a.extent_range[1], extent_max |-> a.extent_range[2],
             resolution |-> a.resolution, reference_point |-> a.reference_point,
             format |-> a.curve_format, storage_type |-> a.storage_type,
             null_value |-> a.invalid_data, over_range |-> a.over_range,
             under_range |-> a.under_range, high_range |-> a.value_range[2],
             low_range |-> a.value_range[1]]
    IN  Ok(SetAttr(self, "explicit_dimensions",
                   replace_dimension(self.explicit_dimensions, "ExplicitDimensions",
                                     explicit_dimensions)))

\* the keyword defaults of setup_implicit_dimensions
ImplicitArgs ==
    [scale |-> Scale4e7, offset |-> 0, units |-> UnitS, extent_range |-> <<0, 0>>,
     resolution |-> 0, reference_point |-> 0, spacing |-> 0]

setup_implicit_dimensions(self, a) ==
    LET implicit_dimensions ==
            [scale |-> a.scale, offset |-> a.offset,
             size |-> Len(self.postcharge_buffer.data) + Len(self.curve_buffer.data)
                      + Len(self.precharge_buffer.data),
             units |-> StringField("String20", a.units),
             extent_min |-> a.extent_range[1], extent_max |-> a.extent_range[2],
             resolution |-> a.resolution, reference_point |-> a.reference_point,
             spacing |-> a.spacing]
    IN  IF Len(self.curve_buffer.data) # 0
        THEN Ok(SetAttr(self, "implicit_dimensions",
                        replace_dimension(self.implicit_dimensions, "ImplicitDimensions",
                                          implicit_dimensions)))
        ELSE Raise("AttributeError: Not enough info to generate implicit dimensions sections.")

\* the keyword defaults of setup_explicit_user_view and setup_implicit_user_view
UserViewArgs(units) ==
    [scale |-> FxInt(1), units |-> units, offset |-> 0, point_density |-> 1,
     horizontal_reference |-> FxInt(50), trigger_delay |-> 0]

\* the point_density field: a Double in version THREE, an UnsignedLong before
PointDensity(version_number, n) ==
    IF version_number = VersionTHREE THEN FxInt(n) ELSE n

setup_explicit_user_view(self, version_number, a) ==
    LET user_view ==
            [scale |-> a.scale, units |-> StringField("String20", a.units),
             offset |-> a.offset, point_density |-> PointDensity(version_number, 1),
             horizontal_reference |-> a.horizontal_reference,
             trigger_delay |-> a.trigger_delay]
    IN  Ok(SetAttr(self, "explicit_user_view",
                   replace_dimension(self.explicit_user_view,
                                     UserViewClass(version_number), user_view)))

setup_implicit_user_view(self, version_number, a) ==
    LET user_view ==
            [scale |-> a.scale, units |-> StringField("String20", a.units),
             offset |-> a.offset,
             point_density |-> PointDensity(version_number, a.point_density),
             horizontal_reference |-> a.horizontal_reference,
             trigger_delay |-> a.trigger_delay]
    IN  Ok(SetAttr(self, "implicit_user_view",
                   replace_dimension(self.implicit_user_view,
                                     UserViewClass(version_number), user_view)))

\* the keyword defaults of setup_time_base_info
TimeBaseArgs == [real_point_spacing |-> 1, sweep_type |-> 1, type_of_base |-> 0]

setup_time_base_info(self, a) ==
    LET time_info ==
            [real_point_spacing |-> a.real_point_spacing, sweep |-> a.sweep_type,
             type_of_base |-> a.type_of_base]
    IN  Ok(SetAttr(self, "time_info",
                   replace_dimension(self.time_info, "TimeBaseInformation", time_info)))

\* setup_update_specifications with its keyword defaults
setup_update_specifications(self) ==
    Ok(SetAttr(self, "update_specifications",
               Some([real_point_offset |-> 0, trigger_time_offset |-> 1,
                     fractional_second |-> 0, gmt_second |-> 0])))

\* setup_curve_information with its keyword defaults
setup_curve_information(self) ==
    LET itemsize == ItemSize(self.curve_buffer.dtype)
        data_start_offset == Len(self.precharge_buffer.data) * itemsize
        postcharge_offset == data_start_offset + Len(self.curve_buffer.data) * itemsize
        postcharge_stop_offset ==
            postcharge_offset + Len(self.postcharge_buffer.data) * itemsize
    IN  Ok(SetAttr(self, "curve_info",
                   Some([state_flags |-> 81, check_sum_type |-> 0, check_sum |-> 0,
                         precharge_start_offset |-> 0,
                         data_start_offset |-> data_start_offset,
                         postcharge_start_offset |-> postcharge_offset,
                         postcharge_stop_offset |-> postcharge_stop_offset,
                         end_of_curve_buffer_offset |-> postcharge_stop_offset])))

\* setup_pixel_map with its keyword defaults
setup_pixel_map(self) ==
    Ok(SetAttr(self, "pixel_map",
               Some([pix_map_displ_format |-> 0, pix_map_max_value |-> 0])))

\* DataTypes.VECTOR and DataTypes.DIGITAL
VECTOR == 2
DIGITAL == 6

\* setup_header(data_type=data_type), the other keywords at their defaults
setup_header(self, data_type) ==
    IF self.explicit_dimensions # None /\ self.implicit_dimensions # None
    THEN Ok(SetAttr(self, "header",
            Some([waveform_type |-> 0, wfm_count |-> 1, acquisition_counter |-> 0,
                  transaction_stamp |-> 0, slot_id |-> 5, is_static |-> 0,
                  update_spec_cnt |-> Len(self.update_specs) + 1,
                  imp_dim_ref_cnt |->
                      IF The(self.implicit_dimensions).second # None THEN 2 ELSE 1,
                  exp_dim_ref_cnt |->
                      IF The(self.explicit_dimensions).second # None THEN 2 ELSE 1,
                  data_type |-> data_type, gen_purpose_counter |-> 0,
                  accumulate_wfm_cnt |-> 1, target_accumulation_cnt |-> 1,
                  curve_ref_cnt |-> 1,
                  num_requested_fast_frames |-> Len(self.update_specs),
                  num_acquired_fast_frames |-> Len(self.update_specs)])))
    ELSE Raise("AttributeError: Not enough info to generate a header section.")

\* the attributes of WfmFormat that hold one record, with the record class
RecordAttrs ==
    <<<<"file_info", "WaveformStaticFileInfo">>, <<"header", "WaveformHeader">>,
      <<"pixel_map", "PixMap">>, <<"update_specifications", "UpdateSpecifications">>,
      <<"curve_info", "CurveInformation">>>>

\* the attributes that hold a Dimension
DimensionAttrs ==
    <<"explicit_dimensions", "explicit_user_view", "implicit_dimensions",
      "implicit_user_view", "time_info">>

BufferAttrs == <<"precharge_buffer", "curve_buffer", "postcharge_buffer">>

\* WfmFormat._find_offsets: (eof_offset, curve_offset), or the exception (the
\* class length of an unset Dimension cannot be taken)
find_offsets(self) ==
    LET records == ByteSum([i \in 1..Len(RecordAttrs) |-> get_cls_length(RecordAttrs[i][2])])
        dims == DimensionAttrs
        dimensions == ByteSum([i \in 1..Len(dims) |->
                                  get_cls_length(The(self[dims[i]]).cls) * 2])
        lists == Len(self.update_specs) * get_cls_length("UpdateSpecifications")
                 + Len(self.curve_specs) * get_cls_length("CurveInformation")
        buffers == ByteSum([i \in 1..3 |->
                      Len(self[BufferAttrs[i]].data) * ItemSize(self[BufferAttrs[i]].dtype)])
        checksum == IF self.file_checksum # None THEN ByteType("UnsignedLongLong").length
                    ELSE 0
        curve_offset == 10 + records + ByteType("UnsignedShort").length + dimensions + lists
    IN  IF \E i \in 1..Len(dims) : self[dims[i]] = None
        THEN Raise("TypeError")
        ELSE Ok(<<curve_offset + buffers + checksum - 7, curve_offset>>)

RECURSIVE Digits(_)
\* len(str(n)) for n >= 0
Digits(n) == IF n < 10 THEN 1 ELSE 1 + Digits(n \div 10)

\* bool(array) in a condition.  An empty array raises too from NumPy 2.2 on;
\* older releases answer False with a DeprecationWarning
Truth(array) ==
    CASE Len(array.data) = 1 -> Ok(array.data[1] # 0)
      [] OTHER -> Raise("ValueError")

\* the body of setup_file_info, offsets what find_offsets returns or raises
FileInfoAt(self, offsets) ==
    LET full == self.header # None /\ self.pixel_map # None /\ self.summary_frame_type # None
        truth == Truth(self.curve_buffer)
    IN  IF ~full /\ Failed(truth) THEN truth
        ELSE IF ~full /\ truth.val
        THEN Raise("AttributeError: Not enough info to generate static file info section.")
        ELSE IF Failed(offsets) THEN offsets
        ELSE IF ~full THEN Raise("TypeError")
        ELSE Ok(SetAttr(self, "file_info",
                Some([digits_in_byte_count |-> Digits(offsets.val[1]),
                      bytes_till_eof |-> offsets.val[1],
                      bytes_per_point |-> ItemSize(self.curve_buffer.dtype),
                      byte_offset |-> offsets.val[2],
                      horizontal_zoom_scale_factor |-> 1,
                      horizontal_zoom_position |-> 0,
                      vertical_zoom_scale_factor |-> FxInt(1),
                      vertical_zoom_position |-> 0,
                      waveform_label |-> StringOf("String32", <<>>),
                      number_of_frames |->
                          IF Len(self.curve_specs) > 1 THEN Len(self.curve_specs) - 1 ELSE 0,
                      header_size |-> get_cls_length("WaveformHeader")
                                      + get_cls_length("PixMap")
                                      + ByteType("UnsignedShort").length])))

\* setup_file_info with its keyword defaults
setup_file_info(self) == FileInfoAt(self, find_offsets(self))

\* the sections _setup_wfm_format looks at, in its order
SetupOrder ==
    <<"summary_frame_type", "pixel_map", "explicit_dimensions", "explicit_user_view",
      "implicit_dimensions", "implicit_user_view", "header", "time_info",
      "update_specifications", "curve_info", "file_info">>

\* one IF of _setup_wfm_format: the section, when unset, gets its defaults
SetupSection(self, versioning_number, section) ==
    IF section = "summary_frame_type"
    THEN IF (self.summary_frame_type = None \/ self.summary_frame_type = Some(0))
            /\ versioning_number # VersionONE
         THEN Ok(SetAttr(self, "summary_frame_type", Some(0)))
         ELSE Ok(self)
    ELSE IF self[section] # None THEN Ok(self)
    ELSE CASE section = "pixel_map" -> setup_pixel_map(self)
           [] section = "explicit_dimensions" -> setup_explicit_dimensions(self, ExplicitArgs)
           [] section = "explicit_user_view" ->
                setup_explicit_user_view(self, versioning_number, UserViewArgs(UnitV))
           [] section = "implicit_dimensions" -> setup_implicit_dimensions(self, ImplicitArgs)
           [] section = "implicit_user_view" ->
                setup_implicit_user_view(self, versioning_number, UserViewArgs(UnitS))
           [] section = "header" -> setup_header(self, VECTOR)
           [] section = "time_info" -> setup_time_base_info(self, TimeBaseArgs)
           [] section = "update_specifications" -> setup_update_specifications(self)
           [] section = "curve_info" -> setup_curve_information(self)
           [] section = "file_info" -> setup_file_info(self)

RECURSIVE SetupFrom(_, _, _)
\* _setup_wfm_format after section i - 1, set_up what its IF made of the assembler
SetupAfter(set_up, self, versioning_number, i) ==
    IF Failed(set_up) THEN RaiseAfter(set_up, self)
    ELSE SetupFrom(set_up.val, versioning_number, i)

\* _setup_wfm_format from section i on
SetupFrom(self, versioning_number, i) ==
    IF i > Len(SetupOrder) THEN Ok(self)
    ELSE SetupAfter(SetupSection(self, versioning_number, SetupOrder[i]),
                    self, versioning_number, i + 1)

\* WfmFormat._setup_wfm_format: every section still unset gets its defaults,
\* file_info last
setup_wfm_format(self, versioning_number) == SetupFrom(self, versioning_number, 1)

\* the bytes of one array element in the byte order of the machine
ElementBytes(dtype, v) ==
    CASE dtype = "f8" -> Ordered("@", DoubleBytesBE(FxInt(v)))
      [] dtype = "f4" -> Ordered("@", FloatBytesBE(FxInt(v)))
      [] OTHER -> Ordered("@", IntBytesBE(v, ItemSize(dtype)))

\* ndarray.tofile(filestream): the bytes written
ToFile(array) ==
    Concat([i \in 1..Len(array.data) |-> ElementBytes(array.dtype, array.data[i])])

\* np.fromfile(filestream, dtype, count) at pos: the elements the file still has
FromFile(stream, pos, dtype, count) ==
    LET size == ItemSize(dtype)
        have == (Len(stream) - pos) \div size
        n == IF have < count THEN (IF have < 0 THEN 0 ELSE have) ELSE count
        element(i) ==
            LET b == SubSeq(stream, pos + (i - 1) * size + 1, pos + i * size)
            IN  CASE dtype = "f8" -> DoubleOfBE(Ordered("@", b)) \div 2
                  [] dtype = "f4" -> FloatOfBE(Ordered("@", b)) \div 2
                  [] dtype \in UnsignedDTypes -> UIntOfBE(Ordered("@", b))
                  [] OTHER -> IntOfBE(Ordered("@", b))
    IN  [val |-> NdArray(dtype, [i \in 1..n |-> element(i)]), pos |-> pos + n * size]

\* value.get_value_summation() of a Dimension: both slots, the second not None
DimensionSummation(dimension) ==
    RecordSummation(dimension.cls, dimension.first)
    + RecordSummation(dimension.cls, The(dimension.second))

\* the summation loop of pack_wfm_file over the instance __dict__
Summation(self, endian, version_number) ==
    LET record(i) == LET a == RecordAttrs[i]
                     IN  IF a[1] \in self.assigned
                         THEN RecordSummation(a[2], The(self[a[1]])) ELSE 0
        dim(i) == LET a == DimensionAttrs[i]
                  IN  IF a \in self.assigned THEN DimensionSummation(The(self[a])) ELSE 0
        buffer(i) == LET a == BufferAttrs[i]
                     IN  IF a \in self.assigned THEN ByteSum(ToFile(self[a])) ELSE 0
        list(a, cls) == IF a \in self.assigned
                        THEN ByteSum([i \in 1..Len(self[a]) |->
                                         RecordSummation(cls, self[a][i])])
                        ELSE 0
    IN  ByteSum(version_number) + ByteSum(endian.format)
        + ByteSum([i \in 1..Len(RecordAttrs) |-> record(i)])
        + ByteSum([i \in 1..Len(DimensionAttrs) |-> dim(i)])
        + ByteSum([i \in 1..3 |-> buffer(i)])
        + list("update_specs", "UpdateSpecifications")
        + list("curve_specs", "CurveInformation")
        + (IF "summary_frame_type" \in self.assigned
           THEN get_value_summation("UnsignedShort", The(self.summary_frame_type)) ELSE 0)
        + (IF "file_checksum" \in self.assigned
           THEN get_value_summation("UnsignedLongLong", The(self.file_checksum)) ELSE 0)

\* the dimensions whose second slot pack_wfm_file fills, in its order
FillOrder ==
    <<"explicit_dimensions", "explicit_user_view", "implicit_dimensions",
      "implicit_user_view", "time_info">>

\* one IF of pack_wfm_file: the second slot of the dimension, when None, is
\* set up with the values that mean it is not in use
FillSlot(self, version_number, dimension) ==
    IF The(self[dimension]).second # None THEN Ok(self)
    ELSE CASE dimension = "explicit_dimensions" ->
                setup_explicit_dimensions(self,
                    [ExplicitArgs EXCEPT !.scale = 0, !.units = UnitNone,
                                         !.curve_format = EXPLICIT_NO_DIMENSION,
                                         !.storage_type = EXPLICIT_INVALID_STORAGE])
           [] dimension = "explicit_user_view" ->
                setup_explicit_user_view(self, version_number,
                    [UserViewArgs(UnitNone) EXCEPT !.scale = 0, !.horizontal_reference = 0])
           [] dimension = "implicit_dimensions" ->
                setup_implicit_dimensions(self,
                    [ImplicitArgs EXCEPT !.scale = 0, !.units = UnitNone])
           [] dimension = "implicit_user_view" ->
                setup_implicit_user_view(self, version_number,
                    [UserViewArgs(UnitNone) EXCEPT !.scale = 0, !.point_density = 0,
                                               !.horizontal_reference = 0])
           [] dimension = "time_info" ->
                setup_time_base_info(self,
                    [real_point_spacing |-> 0, sweep_type |-> 3, type_of_base |-> 3])

RECURSIVE FillFrom(_, _, _)
\* the filling after dimension i - 1, filled what its IF made of the assembler
FillAfter(filled, self, version_number, i) ==
    IF Failed(filled) THEN RaiseAfter(filled, self)
    ELSE FillFrom(filled.val, version_number, i)

\* the filling from dimension i on
FillFrom(self, version_number, i) ==
    IF i > Len(FillOrder) THEN Ok(self)
    ELSE FillAfter(FillSlot(self, version_number, FillOrder[i]), self, version_number, i + 1)

\* the second slots pack_wfm_file fills in when the caller left them unset
FillSecond(self, version_number) == FillFrom(self, version_number, 1)

\* the records pack_wfm_file writes, in file order, as <<attribute, class,
\* slot>>: slot 0 is a record of its own, 1 and 2 the slots of a Dimension
PackOrder ==
    <<<<"file_info", "WaveformStaticFileInfo", 0>>, <<"header", "WaveformHeader", 0>>,
      <<"summary_frame_type", "UnsignedShort", 0>>, <<"pixel_map", "PixMap", 0>>,
      <<"explicit_dimensions", "", 1>>, <<"explicit_user_view", "", 1>>,
      <<"explicit_dimensions", "", 2>>, <<"explicit_user_view", "", 2>>,
      <<"implicit_dimensions", "", 1>>, <<"implicit_user_view", "", 1>>,
      <<"implicit_dimensions", "", 2>>, <<"implicit_user_view", "", 2>>,
      <<"time_info", "", 1>>, <<"time_info", "", 2>>,
      <<"update_specifications", "UpdateSpecifications", 0>>,
      <<"curve_info", "CurveInformation", 0>>>>

\* one filestream.write(... .pack(endian.struct)) of pack_wfm_file
PackSection(self, endian, section) ==
    LET value == The(self[section[1]])
    IN  CASE section[1] = "summary_frame_type" ->
                IF self.summary_frame_type = None THEN <<>>
                ELSE Pack(endian.struct, "UnsignedShort", value)
          [] OTHER ->
                PackRecord(endian.struct,
                           IF section[3] = 0 THEN section[2] ELSE value.cls,
                           CASE section[3] = 0 -> value
                             [] section[3] = 1 -> value.first
                             [] section[3] = 2 -> The(value.second))

\* the sections of the file up to the end of the post buffer, in file order,
\* for an assembler with every section and both slots set
Sections(self, endian, version_number) ==
    <<endian.format, Pack(endian.struct, "String8", version_number)>>
    \o [i \in 1..Len(PackOrder) |-> PackSection(self, endian, PackOrder[i])]
    \o [i \in 1..2 |->
           LET list == <<<<"update_specs", "UpdateSpecifications">>,
                         <<"curve_specs", "CurveInformation">>>>[i]
           IN  Concat([k \in 1..Len(self[list[1]]) |->
                          PackRecord(endian.struct, list[2], self[list[1]][k])])]
    \o <<ToFile(self.precharge_buffer), ToFile(self.curve_buffer),
         ToFile(self.postcharge_buffer)>>

\* the index in Sections of the first slot pack_wfm_file cannot fill
ImplicitSecondSection == 13

\* the end of pack_wfm_file: the checksum and the tekmeta block after the
\* sections
PackSummed(self, endian, sections, summation, tekmeta) ==
    [err |-> tekmeta.err,
     self |-> SetAttr(self, "file_checksum", Some(summation)),
     bytes |-> Concat(sections) \o Pack(endian.struct, "UnsignedLongLong", summation)
               \o tekmeta.val]

\* pack_wfm_file once the second slots were filled, or one could not be
PackFilled(set_up, filled, endian, version_number) ==
    IF Failed(filled)
    THEN \* the implicit second slot could not be filled: what was written before
         [err |-> filled.err, self |-> filled.val,
          bytes |-> Concat(SubSeq(
              Sections(FillSecond(
                           [set_up EXCEPT !.implicit_dimensions =
                               Some([The(@) EXCEPT !.second = Some(The(@).first)])],
                           version_number).val,
                       endian, version_number),
              1, ImplicitSecondSection - 1))]
    ELSE PackSummed(filled.val, endian,
                    Sections(filled.val, endian, version_number),
                    Summation(filled.val, endian, version_number),
                    write_tekmeta(endian.struct, filled.val.meta_data))

\* pack_wfm_file once _setup_wfm_format returned or raised
PackSetUp(set_up, endian, version_number) ==
    IF Failed(set_up) THEN [err |-> set_up.err, self |-> set_up.val, bytes |-> <<>>]
    ELSE PackFilled(set_up.val, FillSecond(set_up.val, version_number),
                    endian, version_number)

\* WfmFormat.pack_wfm_file(endian, version_number, filestream) on an empty
\* file: the exception if any, the assembler it leaves and the bytes written
pack_wfm_file(self, endian, version_number) ==
    PackSetUp(setup_wfm_format(self, version_number), endian, version_number)

\* Dimension(first, second) of two records unpacked from the file
Dimension(cls, first, second) == [cls |-> cls, first |-> first, second |-> Some(second)]

\* one read of unpack_wfm_file: a record, the summary frame type, or, where a
\* version has no such field, nothing
UnpackOne(endian, cls, stream, pos) ==
    CASE cls = "" -> [err |-> "", val |-> 0, pos |-> pos]
      [] cls = "UnsignedShort" -> UnpackAt(endian, cls, stream, pos)
      [] OTHER -> UnpackRecord(endian, cls, stream, pos)

\* rest with the value v ahead of its values
Prepended(v, rest) == IF Failed(rest) THEN rest ELSE [rest EXCEPT !.val = <<v>> \o @]

RECURSIVE UnpackEach(_, _, _, _)
\* the reads after the first, one what the first returned
UnpackRest(one, endian, classes, stream) ==
    IF Failed(one) THEN one
    ELSE Prepended(one.val, UnpackEach(endian, classes, stream, one.pos))

\* consecutive reads of the classes from pos: the values in order and the
\* position after them, or the struct.error of the first read that comes short
UnpackEach(endian, classes, stream, pos) ==
    IF classes = <<>> THEN [err |-> "", val |-> <<>>, pos |-> pos]
    ELSE UnpackRest(UnpackOne(endian, classes[1], stream, pos),
                    endian, Tail(classes), stream)

\* [cls.unpack(endian.struct, filestream, in_order=True) for _ in range(count)]
UnpackList(endian, cls, stream, pos, count) ==
    UnpackEach(endian, [i \in 1..count |-> cls], stream, pos)

\* WfmFormat._get_curve_information: the pre, curve and post buffers
get_curve_information(self, stream, pos) ==
    LET format == The(self.explicit_dimensions).first.format
        curve_info == The(self.curve_info)
        bytes_per_point == The(self.file_info).bytes_per_point
        dtype == CurveDType(format)
        count(from, to) == LET n == (to - from) \div bytes_per_point
                           IN  IF n < 0 THEN 0 ELSE n
        pre == FromFile(stream, pos, dtype,
                        count(curve_info.precharge_start_offset, curve_info.data_start_offset))
        curve == FromFile(stream, pre.pos, dtype,
                          count(curve_info.data_start_offset,
                                curve_info.postcharge_start_offset))
        post == FromFile(stream, curve.pos, dtype,
                         count(curve_info.postcharge_start_offset,
                               curve_info.postcharge_stop_offset))
    IN  IF format \notin 0..7 THEN Raise("KeyError")
        ELSE IF bytes_per_point = 0 THEN Raise("ZeroDivisionError")
        ELSE [err |-> "", val |-> <<pre.val, curve.val, post.val>>, pos |-> post.pos]

\* what unpack_wfm_file reads up to the curve information, in file order
UnpackOrder(version_number) ==
    LET view == UserViewClass(version_number)
    IN  <<"WaveformStaticFileInfo", "WaveformHeader",
          IF version_number # VersionONE THEN "UnsignedShort" ELSE "",
          "PixMap",
          "ExplicitDimensions", view, "ExplicitDimensions", view,
          "ImplicitDimensions", view, "ImplicitDimensions", view,
          "TimeBaseInformation", "TimeBaseInformation",
          "UpdateSpecifications", "CurveInformation">>

\* the assignments of unpack_wfm_file: records as UnpackOrder lists them, then
\* the update specifications and the curve informations of the fast frames
Unpacked(self, version_number, r, specs) ==
    LET view == UserViewClass(version_number)
    IN  [self EXCEPT
           !.file_info = Some(r[1]), !.header = Some(r[2]),
           !.summary_frame_type = IF version_number # VersionONE THEN Some(r[3]) ELSE @,
           !.pixel_map = Some(r[4]),
           !.explicit_dimensions = Some(Dimension("ExplicitDimensions", r[5], r[7])),
           !.explicit_user_view = Some(Dimension(view, r[6], r[8])),
           !.implicit_dimensions = Some(Dimension("ImplicitDimensions", r[9], r[11])),
           !.implicit_user_view = Some(Dimension(view, r[10], r[12])),
           !.time_info = Some(Dimension("TimeBaseInformation", r[13], r[14])),
           !.update_specifications = Some(r[15]),
           !.curve_info = Some(r[16]),
           !.update_specs = SubSeq(specs, 1, Len(specs) \div 2),
           !.curve_specs = SubSeq(specs, (Len(specs) \div 2) + 1, Len(specs)),
           !.assigned = @ \cup {RecordAttrs[i][1] : i \in 1..Len(RecordAttrs)}
                          \cup {DimensionAttrs[i] : i \in 1..Len(DimensionAttrs)}
                          \cup {"update_specs", "curve_specs"}
                          \cup (IF version_number # VersionONE
                                THEN {"summary_frame_type"} ELSE {})]

\* the end of unpack_wfm_file: meta_data what parse_tekmeta returned or raised
UnpackTekmeta(self, meta_data) ==
    IF Failed(meta_data) THEN meta_data
    ELSE Ok(SetAttr(self, "meta_data", meta_data.val))

\* unpack_wfm_file after _get_curve_information: the checksum, whose
\* struct.error is suppressed, and the tekmeta block
UnpackChecksum(self, endian, stream, buffers) ==
    LET s2 == [self EXCEPT !.precharge_buffer = buffers.val[1],
                           !.curve_buffer = buffers.val[2],
                           !.postcharge_buffer = buffers.val[3],
                           !.assigned = @ \cup {BufferAttrs[i] : i \in 1..3}]
        file_checksum == UnpackAt(endian.struct, "UnsignedLongLong", stream, buffers.pos)
        \* the read of the checksum moves the stream also when it comes short
        after == buffers.pos + Len(ReadAt(stream, buffers.pos, 8))
    IN  IF Failed(buffers) THEN buffers
        ELSE UnpackTekmeta(IF Failed(file_checksum) THEN s2
                           ELSE SetAttr(s2, "file_checksum", Some(file_checksum.val)),
                           parse_tekmeta(endian.struct, stream, after))

\* unpack_wfm_file after the lists of the fast frames
UnpackBuffers(self, endian, stream, pos) ==
    UnpackChecksum(self, endian, stream, get_curve_information(self, stream, pos))

\* unpack_wfm_file after the records up to the curve information
UnpackSpecs(self, endian, version_number, stream, records, specs) ==
    IF Failed(records) THEN records
    ELSE IF Failed(specs) THEN specs
    ELSE UnpackBuffers(Unpacked(self, version_number, records.val, specs.val),
                       endian, stream, specs.pos)

\* the lists of the fast frames: as many update specifications, then as many
\* curve informations, as the header counts
UnpackFrames(endian, stream, records) ==
    LET frames == records.val[2].num_acquired_fast_frames
    IN  UnpackEach(endian.struct,
                   [i \in 1..frames |-> "UpdateSpecifications"]
                   \o [i \in 1..frames |-> "CurveInformation"],
                   stream, records.pos)

\* unpack_wfm_file once the records up to the curve information were read
UnpackRecords(self, endian, version_number, stream, records) ==
    UnpackSpecs(self, endian, version_number, stream, records,
                UnpackFrames(endian, stream, records))

\* WfmFormat.unpack_wfm_file(endian, version_number, filestream) with the
\* stream at pos: the assembler it fills, or the exception
unpack_wfm_file(self, endian, version_number, stream, pos) ==
    UnpackRecords(self, endian, version_number, stream,
                  UnpackEach(endian.struct, UnpackOrder(version_number), stream, pos))

\* ------------------------------------------------------------------------
\* Metadata classes: WaveformMetaInfo and its subclasses.  A meta info object
\* is [cls, dict]: dict is the instance __dict__, a sequence of
\* <<field name, value>> in field order, a value being None or [t, v].
\* the code points of the identifiers and literals the metadata code names
Str(s) ==
    CASE s = "waveform_label" -> <<119, 97, 118, 101, 102, 111, 114, 109, 95, 108, 97, 98, 101, 108>>
      [] s = "extended_metadata" -> <<101, 120, 116, 101, 110, 100, 101, 100, 95, 109, 101, 116, 97, 100, 97, 116, 97>>
      [] s = "y_offset" -> <<121, 95, 111, 102, 102, 115, 101, 116>>
      [] s = "y_position" -> <<121, 95, 112, 111, 115, 105, 116, 105, 111, 110>>
      [] s = "analog_thumbnail" -> <<97, 110, 97, 108, 111, 103, 95, 116, 104, 117, 109, 98, 110, 97, 105, 108>>
      [] s = "clipping_initialized" -> <<99, 108, 105, 112, 112, 105, 110, 103, 95, 105, 110, 105, 116, 105, 97, 108, 105, 122, 101, 100>>
      [] s = "interpreter_factor" -> <<105, 110, 116, 101, 114, 112, 114, 101, 116, 101, 114, 95, 102, 97, 99, 116, 111, 114>>
      [] s = "real_data_start_index" -> <<114, 101, 97, 108, 95, 100, 97, 116, 97, 95, 115, 116, 97, 114, 116, 95, 105, 110, 100, 101, 120>>
      [] s = "iq_center_frequency" -> <<105, 113, 95, 99, 101, 110, 116, 101, 114, 95, 102, 114, 101, 113, 117, 101, 110, 99, 121>>
      [] s = "iq_fft_length" -> <<105, 113, 95, 102, 102, 116, 95, 108, 101, 110, 103, 116, 104>>
      [] s = "iq_resolution_bandwidth" -> <<105, 113, 95, 114, 101, 115, 111, 108, 117, 116, 105, 111, 110, 95, 98, 97, 110, 100, 119, 105, 100, 116, 104>>
      [] s = "iq_span" -> <<105, 113, 95, 115, 112, 97, 110>>
      [] s = "iq_window_type" -> <<105, 113, 95, 119, 105, 110, 100, 111, 119, 95, 116, 121, 112, 101>>
      [] s = "iq_sample_rate" -> <<105, 113, 95, 115, 97, 109, 112, 108, 101, 95, 114, 97, 116, 101>>
      [] s = "digital_probe_0_state" -> <<100, 105, 103, 105, 116, 97, 108, 95, 112, 114, 111, 98, 101, 95, 48, 95, 115, 116, 97, 116, 101>>
      [] s = "digital_probe_1_state" -> <<100, 105, 103, 105, 116, 97, 108, 95, 112, 114, 111, 98, 101, 95, 49, 95, 115, 116, 97, 116, 101>>
      [] s = "digital_probe_2_state" -> <<100, 105, 103, 105, 116, 97, 108, 95, 112, 114, 111, 98, 101, 95, 50, 95, 115, 116, 97, 116, 101>>
      [] s = "digital_probe_3_state" -> <<100, 105, 103, 105, 116, 97, 108, 95, 112, 114, 111, 98, 101, 95, 51, 95, 115, 116, 97, 116, 101>>
      [] s = "digital_probe_4_state" -> <<100, 105, 103, 105, 116, 97, 108, 95, 112, 114, 111, 98, 101, 95, 52, 95, 115, 116, 97, 116, 101>>
      [] s = "digital_probe_5_state" -> <<100, 105, 103, 105, 116, 97, 108, 95, 112, 114, 111, 98, 101, 95, 53, 95, 115, 116, 97, 116, 101>>
      [] s = "digital_probe_6_state" -> <<100, 105, 103, 105, 116, 97, 108, 95, 112, 114, 111, 98, 101, 95, 54, 95, 115, 116, 97, 116, 101>>
      [] s = "digital_probe_7_state" -> <<100, 105, 103, 105, 116, 97, 108, 95, 112, 114, 111, 98, 101, 95, 55, 95, 115, 116, 97, 116, 101>>
      [] s = "yOffset" -> <<121, 79, 102, 102, 115, 101, 116>>
      [] s = "yPosition" -> <<121, 80, 111, 115, 105, 116, 105, 111, 110>>
      [] s = "ANALOG_Thumbnail" -> <<65, 78, 65, 76, 79, 71, 95, 84, 104, 117, 109, 98, 110, 97, 105, 108>>
      [] s = "clippingInitialized" -> <<99, 108, 105, 112, 112, 105, 110, 103, 73, 110, 105, 116, 105, 97, 108, 105, 122, 101, 100>>
      [] s = "interpFactor" -> <<105, 110, 116, 101, 114, 112, 70, 97, 99, 116, 111, 114>>
      [] s = "realDataStartIndex" -> <<114, 101, 97, 108, 68, 97, 116, 97, 83, 116, 97, 114, 116, 73, 110, 100, 101, 120>>
      [] s = "IQ_centerFrequency" -> <<73, 81, 95, 99, 101, 110, 116, 101, 114, 70, 114, 101, 113, 117, 101, 110, 99, 121>>
      [] s = "IQ_fftLength" -> <<73, 81, 95, 102, 102, 116, 76, 101, 110, 103, 116, 104>>
      [] s = "IQ_rbw" -> <<73, 81, 95, 114, 98, 119>>
      [] s = "IQ_span" -> <<73, 81, 95, 115, 112, 97, 110>>
      [] s = "IQ_windowType" -> <<73, 81, 95, 119, 105, 110, 100, 111, 119, 84, 121, 112, 101>>
      [] s = "IQ_sampleRate" -> <<73, 81, 95, 115, 97, 109, 112, 108, 101, 82, 97, 116, 101>>
      [] s = "d0" -> <<100, 48>>
      [] s = "d1" -> <<100, 49>>
      [] s = "d2" -> <<100, 50>>
      [] s = "d3" -> <<100, 51>>
      [] s = "d4" -> <<100, 52>>
      [] s = "d5" -> <<100, 53>>
      [] s = "d6" -> <<100, 54>>
      [] s = "d7" -> <<100, 55>>
      [] s = "BlackHarris" -> <<66, 108, 97, 99, 107, 72, 97, 114, 114, 105, 115>>
      [] s = "Flattop2" -> <<70, 108, 97, 116, 116, 111, 112, 50>>
      [] s = "Hanning" -> <<72, 97, 110, 110, 105, 110, 103>>
      [] s = "Hamming" -> <<72, 97, 109, 109, 105, 110, 103>>
      [] s = "Rectangle" -> <<82, 101, 99, 116, 97, 110, 103, 108, 101>>
      [] s = "Kaiserbessel" -> <<75, 97, 105, 115, 101, 114, 98, 101, 115, 115, 101, 108>>
      [] s = "None" -> <<78, 111, 110, 101>>
      [] s = "0.0" -> <<48, 46, 48>>

\* the fields of each class as <<name, annotation, class attribute>> in
\* dataclass field order; a default_factory field leaves no class attribute
MetaField(name, type, has, default) ==
    [name |-> Str(name), type |-> type, has |-> has, default |-> default]

ProbeStates ==
    <<"digital_probe_0_state", "digital_probe_1_state", "digital_probe_2_state",
      "digital_probe_3_state", "digital_probe_4_state", "digital_probe_5_state",
      "digital_probe_6_state", "digital_probe_7_state">>

\* b"0x01"
ProbeStateDefault == [t |-> "bytes", v |-> <<48, 120, 48, 49>>]

\* the fields each class declares
OwnFields(cls) ==
    CASE cls = "ExclusiveMetaInfo" ->
           <<MetaField("waveform_label", "str", TRUE, [t |-> "str", v |-> <<>>])>>
      [] cls = "WaveformMetaInfo" ->
           <<MetaField("extended_metadata", "Optional[Dict]", TRUE, None)>>
      [] cls = "AnalogWaveformMetaInfo" ->
           <<MetaField("y_offset", "Optional[float]", TRUE, [t |-> "float", v |-> 0]),
             MetaField("y_position", "Optional[float]", TRUE, [t |-> "float", v |-> 0]),
             MetaField("analog_thumbnail", "Optional[str]", TRUE, None),
             MetaField("clipping_initialized", "Optional[int]", TRUE, [t |-> "int", v |-> 1]),
             MetaField("interpreter_factor", "Optional[int]", TRUE, None),
             MetaField("real_data_start_index", "Optional[int]", TRUE, None)>>
      [] cls = "IQWaveformMetaInfo" ->
           <<MetaField("iq_center_frequency", "float", FALSE, None),
             MetaField("iq_fft_length", "float", FALSE, None),
             MetaField("iq_resolution_bandwidth", "float", FALSE, None),
             MetaField("iq_span", "float", FALSE, None),
             MetaField("iq_window_type", "str", FALSE, None),
             MetaField("iq_sample_rate", "Optional[float]", TRUE, None)>>
      [] cls = "DigitalWaveformMetaInfo" ->
           [i \in 1..8 |-> MetaField(ProbeStates[i], "bytes", TRUE, ProbeStateDefault)]

\* cls.__mro__ up to EnforcedTypeDataClass
Mro(cls) ==
    CASE cls = "WaveformMetaInfo" -> <<"WaveformMetaInfo", "ExclusiveMetaInfo">>
      [] cls = "AnalogWaveformMetaInfo" ->
           <<"AnalogWaveformMetaInfo", "WaveformMetaInfo", "ExclusiveMetaInfo">>
      [] cls = "IQWaveformMetaInfo" ->
           <<"IQWaveformMetaInfo", "AnalogWaveformMetaInfo", "WaveformMetaInfo",
             "ExclusiveMetaInfo">>
      [] cls = "DigitalWaveformMetaInfo" ->
           <<"DigitalWaveformMetaInfo", "WaveformMetaInfo", "ExclusiveMetaInfo">>

\* the annotations in the order validate visits them: the class first
AnnotatedFields(cls) == Concat([i \in 1..Len(Mro(cls)) |-> OwnFields(Mro(cls)[i])])

\* the dataclass fields in the order of the instance __dict__: the bases first
MetaFields(cls) == Concat(Rev([i \in 1..Len(Mro(cls)) |-> OwnFields(Mro(cls)[i])]))

\* the str a leading run of alphabetic bytes spells
AlphaString(b) ==
    LET stops == {i \in 1..Len(b) : ~IsAlphaByte(b[i])}
        n == IF stops = {} THEN Len(b)
             ELSE (CHOOSE i \in stops : \A j \in stops : i <= j) - 1
    IN  SubSeq(b, 1, n)

RECURSIVE IntChars(_)
\* str(n) of a whole number
IntChars(n) ==
    IF n < 0 THEN <<45>> \o IntChars(0 - n)
    ELSE IF n < 10 THEN <<48 + n>>
    ELSE IntChars(n \div 10) \o <<48 + (n % 10)>>

\* repr of a float
FloatChars(h) ==
    IF h = Scale4e7 THEN <<52, 101, 45, 48, 55>>
    ELSE (IF h < 0 THEN <<45>> ELSE <<>>) \o IntChars(Abs(h) \div 2)
         \o <<46, 48 + 5 * (Abs(h) % 2)>>

IsIntValue(x) == x.t \in {"int", "Long", "UnsignedLong"}
IsFloatValue(x) == x.t \in {"float", "Double"}
IsNumeral(chars) == chars # <<>> /\ \A i \in 1..Len(chars) : chars[i] \in 48..57

RECURSIVE NumeralValue(_)
NumeralValue(chars) ==
    IF chars = <<>> THEN 0
    ELSE 10 * NumeralValue(SubSeq(chars, 1, Len(chars) - 1)) + (chars[Len(chars)] - 48)

\* int(h) of a float: towards zero
Trunc(h) == IF h = Scale4e7 THEN 0 ELSE IF h < 0 THEN 0 - ((0 - h) \div 2) ELSE h \div 2

CannotConvert == Raise("TypeError")

\* field_type(value_to_convert) for the plain types the annotations name.
\* Text is read as a number only when it is a run of digits.
Call(type, x) ==
    CASE type = "str" ->
           Ok([t |-> "str",
               v |-> CASE IsNone(x) -> Str("None")
                       [] x.t = "str" -> x.v
                       [] IsIntValue(x) -> IntChars(x.v)
                       [] IsFloatValue(x) -> FloatChars(x.v)])
      [] type = "float" ->
           CASE IsNone(x) -> CannotConvert
             [] IsFloatValue(x) -> Ok([t |-> "float", v |-> x.v])
             [] IsIntValue(x) -> Ok([t |-> "float", v |-> FxInt(x.v)])
             [] x.t = "str" /\ IsNumeral(x.v) ->
                  Ok([t |-> "float", v |-> FxInt(NumeralValue(x.v))])
             [] OTHER -> CannotConvert
      [] type = "int" ->
           CASE IsNone(x) -> CannotConvert
             [] IsIntValue(x) -> Ok([t |-> "int", v |-> x.v])
             [] IsFloatValue(x) -> Ok([t |-> "int", v |-> Trunc(x.v)])
             [] x.t = "str" /\ IsNumeral(x.v) -> Ok([t |-> "int", v |-> NumeralValue(x.v)])
             [] OTHER -> CannotConvert
      [] type = "bytes" ->
           CASE IsNone(x) -> CannotConvert
             [] IsIntValue(x) /\ x.v >= 0 -> Ok([t |-> "bytes", v |-> Zeros(x.v)])
             [] OTHER -> CannotConvert
      [] type = "Dict" ->
           CASE IsNone(x) -> CannotConvert
             [] x.t = "dict" -> Ok(x)
             [] OTHER -> CannotConvert

Optionals == {"Optional[float]", "Optional[str]", "Optional[int]", "Optional[Dict]"}

Inner(type) ==
    CASE type = "Optional[float]" -> "float"
      [] type = "Optional[str]" -> "str"
      [] type = "Optional[int]" -> "int"
      [] type = "Optional[Dict]" -> "Dict"

\* convert_to_type(field_type, value_to_convert)
convert_to_type(field_type, value_to_convert) ==
    IF ~IsNone(value_to_convert) /\ value_to_convert.t = "bytes"
    THEN Ok([t |-> "str", v |-> AlphaString(value_to_convert.v)])
    ELSE IF field_type \in Optionals
    THEN IF IsNone(value_to_convert) THEN Ok(None)
         ELSE Call(Inner(field_type), value_to_convert)
    ELSE Call(field_type, value_to_convert)

\* pydantic's validation of a converted value against the annotation
PydanticField(field_type, value) ==
    LET type == IF field_type \in Optionals THEN Inner(field_type) ELSE field_type
        invalid == Raise("ValidationError")
    IN  IF IsNone(value)
        THEN IF field_type \in Optionals THEN Ok(None) ELSE invalid
        ELSE CASE type = "str" -> IF value.t = "str" THEN Ok(value) ELSE invalid
               [] type = "bytes" ->
                    CASE value.t = "bytes" -> Ok(value)
                      [] value.t = "str" -> Ok([t |-> "bytes", v |-> Encode(value.v)])
                      [] OTHER -> invalid
               [] type = "float" ->
                    CASE value.t = "float" -> Ok(value)
                      [] value.t = "str" /\ IsNumeral(value.v) ->
                           Ok([t |-> "float", v |-> FxInt(NumeralValue(value.v))])
                      [] OTHER -> invalid
               [] type = "int" ->
                    CASE value.t = "int" -> Ok(value)
                      [] value.t = "str" /\ IsNumeral(value.v) ->
                           Ok([t |-> "int", v |-> NumeralValue(value.v)])
                      [] OTHER -> invalid
               [] type = "Dict" -> IF value.t = "dict" THEN Ok(value) ELSE invalid

\* the loop of validate over the annotated fields: each converted, the first
\* failure as raised
ValidateFields(fields, kwargs) ==
    LET converted == [i \in 1..Len(fields) |->
            IF fields[i].name \in DictKeys(kwargs)
            THEN convert_to_type(fields[i].type, DictGet(kwargs, fields[i].name))
            ELSE IF ~fields[i].has THEN Raise("AttributeError")
            ELSE convert_to_type(fields[i].type, fields[i].default)]
        bad == {i \in 1..Len(fields) : Failed(converted[i])}
    IN  IF bad # {}
        THEN Raise(converted[CHOOSE i \in bad : \A j \in bad : i <= j].err)
        ELSE Ok([i \in 1..Len(fields) |-> <<fields[i].name, converted[i].val>>])

\* the values validate hands on
validate(cls, kwargs) == ValidateFields(AnnotatedFields(cls), kwargs)

\* str.upper on the characters that can spell a window type
Upper(chars) ==
    Concat([i \in 1..Len(chars) |->
        CASE chars[i] \in 97..122 -> <<chars[i] - 32>>
          [] chars[i] = 223 -> <<83, 83>>
          [] chars[i] = 305 -> <<73>>
          [] chars[i] = 383 -> <<83>>
          [] OTHER -> <<chars[i]>>])

\* iq_window_lookup: the window types and their magic numbers as fractions
iq_window_lookup ==
    <<<<"BlackHarris", <<19, 10>>>>, <<"Flattop2", <<377, 100>>>>,
      <<"Hanning", <<144, 100>>>>, <<"Hamming", <<13, 10>>>>,
      <<"Rectangle", <<89, 100>>>>, <<"Kaiserbessel", <<223, 100>>>>>>

\* IQWaveformMetaInfo.__post_init__
IQ__post_init__(dict) ==
    LET window == Upper(DictGet(dict, Str("iq_window_type")).v)
        hits == {i \in 1..Len(iq_window_lookup) :
                    window = Upper(Str(iq_window_lookup[i][1]))}
        magic == iq_window_lookup[CHOOSE i \in hits : \A j \in hits : i <= j][2]
        product == QMul(QOfFx(DictGet(dict, Str("iq_fft_length")).v),
                        QOfFx(DictGet(dict, Str("iq_resolution_bandwidth")).v))
        rate == IF hits # {}
                THEN [t |-> "float", v |-> QToFx(QDiv(product, QNorm(magic[1], magic[2])))]
                ELSE DictGet(dict, Str("iq_span"))
    IN  DictSet(dict, Str("iq_sample_rate"), rate)

\* the generated __init__ on the values validate handed on, then __post_init__
CheckFields(cls, fields, values) ==
    LET checked == [i \in 1..Len(fields) |->
            PydanticField(fields[i].type, DictGet(values.val, fields[i].name))]
        dict == [i \in 1..Len(fields) |-> <<fields[i].name, checked[i].val>>]
    IN  IF Failed(values) THEN values
        ELSE IF \E i \in 1..Len(fields) : Failed(checked[i]) THEN Raise("ValidationError")
        ELSE Ok([cls |-> cls,
                 dict |-> IF cls = "IQWaveformMetaInfo" THEN IQ__post_init__(dict) ELSE dict])

\* cls(**kwargs): the meta info object, or the exception its construction raises
MetaInfo(cls, kwargs) == CheckFields(cls, MetaFields(cls), validate(cls, kwargs))

\* WaveformMetaInfo.operable_metainfo
operable_metainfo(self) == SelectSeq(self.dict, LAMBDA item : ~IsNone(item[2]))

\* ------------------------------------------------------------------------
\* The WFM codecs (files_and_formats/wfm/wfm.py and data_formats/).

\* the candidates with the Analog codec ahead of the others
WFMFormatsAnalogFirst == <<"analog", "digital", "iq">>

\* class_lookup.WFMFormats: the codecs of the .wfm extension, in the order
\* read_file consults them
WFMFormats == <<"digital", "iq", "analog">>

META_DATA_TYPE(kind) ==
    CASE kind = "analog" -> "AnalogWaveformMetaInfo"
      [] kind = "iq" -> "IQWaveformMetaInfo"
      [] kind = "digital" -> "DigitalWaveformMetaInfo"

DATUM_TYPE(kind) ==
    CASE kind = "analog" -> AnalogWaveform
      [] kind = "iq" -> IQWaveform
      [] kind = "digital" -> DigitalWaveform

\* WFMFile._META_DATA_LOOKUP as <<field name, key in the file>>
BaseLookup ==
    <<<<"waveform_label", "waveform_label">>, <<"y_offset", "yOffset">>,
      <<"y_position", "yPosition">>, <<"analog_thumbnail", "ANALOG_Thumbnail">>,
      <<"clipping_initialized", "clippingInitialized">>,
      <<"interpreter_factor", "interpFactor">>,
      <<"real_data_start_index", "realDataStartIndex">>>>

IQKeys ==
    <<"IQ_centerFrequency", "IQ_fftLength", "IQ_rbw", "IQ_span", "IQ_windowType",
      "IQ_sampleRate">>

IQFieldNames ==
    <<"iq_center_frequency", "iq_fft_length", "iq_resolution_bandwidth", "iq_span",
      "iq_window_type", "iq_sample_rate">>

DigitalKeys == <<"d0", "d1", "d2", "d3", "d4", "d5", "d6", "d7">>

\* the lookup of each codec, the names as code points
META_DATA_LOOKUP(kind) ==
    LET named == CASE kind = "analog" -> BaseLookup
                   [] kind = "iq" ->
                        BaseLookup \o [i \in 1..6 |-> <<IQFieldNames[i], IQKeys[i]>>]
                   [] kind = "digital" ->
                        BaseLookup \o [i \in 1..8 |-> <<ProbeStates[i], DigitalKeys[i]>>]
    IN  [i \in 1..Len(named) |-> <<Str(named[i][1]), Str(named[i][2])>>]

\* bidict.inverse
Inverse(lookup) == [i \in 1..Len(lookup) |-> <<lookup[i][2], lookup[i][1]>>]

RECURSIVE remap(_, _)
\* WaveformMetaInfo.remap(lookup, data): the keys the lookup knows renamed
remap(lookup, data) ==
    IF data = <<>> THEN <<>>
    ELSE LET last == data[Len(data)]
             key == IF last[1] \in DictKeys(lookup) THEN DictGet(lookup, last[1])
                    ELSE last[1]
         IN  DictSet(remap(lookup, SubSeq(data, 1, Len(data) - 1)), key, last[2])

RECURSIVE Update(_, _)
\* dict.update
Update(d, items) ==
    IF items = <<>> THEN d
    ELSE Update(DictSet(d, items[1][1], items[1][2]), Tail(items))

\* the metadata write_datum hands to the assembler
MetadataToWrite(kind, meta_info) ==
    IF IsNone(meta_info) THEN <<>>
    ELSE LET extended == DictGet(The(meta_info).dict, Str("extended_metadata"))
             custom == IF IsNone(extended) THEN <<>> ELSE extended.v
             standard == SelectSeq(operable_metainfo(The(meta_info)),
                                   LAMBDA item : item[1] # Str("extended_metadata"))
         IN  remap(META_DATA_LOOKUP(kind), Update(custom, standard))

\* RawSample(measured_data, as_type=...) on measured data of the 8- and 16-bit
\* integer types: the values rescaled by the ratio of the type ranges, shifted
\* between signed and unsigned, and cut to whole numbers
RawSampleAs(measured_data, dtype) ==
    LET from == measured_data.dtype
        ratio == QNorm(type_max(dtype) - type_min(dtype), type_max(from) - type_min(from))
        offset == CASE from \notin UnsignedDTypes /\ dtype \in UnsignedDTypes ->
                         QMul(QOfInt(type_min(from)), ratio)
                    [] from \in UnsignedDTypes /\ dtype \notin UnsignedDTypes ->
                         QOfInt(0 - type_min(dtype))
                    [] OTHER -> QOfInt(0)
        scaled(v) == QSub(QMul(QOfInt(v), ratio), offset)
        cut(q) == IF q[1] < 0 THEN 0 - ((0 - q[1]) \div q[2]) ELSE q[1] \div q[2]
    IN  CASE measured_data.cls = "MeasuredData" -> Raise("NotImplementedError")
          [] measured_data.cls = "RawSample" /\ from = dtype -> Ok(measured_data)
          [] measured_data.cls = "RawSample" ->
               Ok([cls |-> "RawSample", dtype |-> dtype,
                   data |-> [i \in 1..Len(measured_data.data) |->
                                cut(scaled(measured_data.data[i]))]])

\* ------------------------------------------------------------------------
\* Arrays in memory: the memory is a sequence of buffers, an array in it is
\* [cls, dtype, buf], buf the index of its buffer.  The floats of a waveform
\* a transform returns are exact rationals.

\* the array of a buffer as a value array
Deref(heap, arr) == [cls |-> arr.cls, dtype |-> arr.dtype, data |-> heap[arr.buf]]

SeqMaximum(s) == CHOOSE x \in {s[i] : i \in DOMAIN s} : \A i \in DOMAIN s : s[i] <= x
SeqMinimum(s) == CHOOSE x \in {s[i] : i \in DOMAIN s} : \A i \in DOMAIN s : x <= s[i]

\* astype of an integer type on a fraction: cut towards zero
Truncated(q) == IF q[1] < 0 THEN 0 - ((0 - q[1]) \div q[2]) ELSE q[1] \div q[2]

\* what astype of an integer type made of a NaN, before the caller draws it:
\* the cast is undefined, its outcome depends on the build
NaNCast == 0 - Pow2(16)

\* the values a build may give for the cast of a NaN
NaNCasts(dtype) == {type_min(dtype), 0, type_max(dtype)}

\* the samples with every cast of a NaN drawn as the value given
DrawNaNCast(data, value) == [i \in DOMAIN data |-> IF data[i] = NaNCast THEN value ELSE data[i]]

\* Normalized._this_format_to_raw_sample_format on float64 data; samples that
\* are all equal give a spacing of 0.0 and every quotient 0.0 / 0.0, a NaN
NormalizedToRawSample(data, dtype) ==
    LET hi == SeqMaximum(data)
        lo == SeqMinimum(data)
        spacing == QDiv(QOfFx(hi - lo), QOfInt(type_max(dtype) - type_min(dtype)))
        offset == QDiv(QOfFx(hi + lo), QOfInt(2))
    IN  [i \in DOMAIN data |->
            IF hi = lo THEN NaNCast
            ELSE Truncated(QDiv(QSub(QOfFx(data[i]), offset), spacing))]

\* calculate_spacing of RawSample and of Normalized
calculate_spacing(heap, arr) ==
    IF arr.cls = "RawSample" THEN <<1, type_max(arr.dtype) - type_min(arr.dtype)>>
    ELSE QDiv(QOfInt(1), QOfFx(SeqMaximum(heap[arr.buf]) - SeqMinimum(heap[arr.buf])))

\* calculate_offset of RawSample and of Normalized: the known offset, and the
\* known offset plus the mean
calculate_offset(heap, arr, known_offset) ==
    IF arr.cls = "RawSample" THEN QOfFx(known_offset)
    ELSE QAdd(QOfFx(known_offset),
              QNorm(SumFromTo(heap[arr.buf], 1, Len(heap[arr.buf])),
                    2 * Len(heap[arr.buf])))

\* MeasuredData._convert_data_to_type returns np.asarray(measured_data), a
\* view on the buffer of measured_data, when the class and the dtype stay
ReturnsView(cls, measured_data, dtype) ==
    measured_data.cls = cls /\ measured_data.dtype = dtype

\* MeasuredData.__new__ on a MeasuredData: ndarray.__new__(buffer=...) on the
\* array _convert_data_to_type returned, values being those of a converted
\* array.  The memory after the call and the new array.
MeasuredData__new__(cls, measured_data, dtype, values, heap) ==
    IF ReturnsView(cls, measured_data, dtype)
    THEN [heap |-> heap,
          arr |-> [cls |-> cls, dtype |-> dtype, buf |-> measured_data.buf]]
    ELSE [heap |-> Append(heap, values.data),
          arr |-> [cls |-> cls, dtype |-> values.dtype, buf |-> Len(heap) + 1]]

\* RawSample(measured_data, as_type=dtype) in memory
RawSampleOn(measured_data, dtype, heap) ==
    MeasuredData__new__("RawSample", measured_data, dtype,
        IF measured_data.cls = "RawSample"
        THEN RawSampleAs(Deref(heap, measured_data), dtype).val
        ELSE [dtype |-> dtype, data |-> NormalizedToRawSample(heap[measured_data.buf], dtype)],
        heap)

\* Normalized(measured_data, offset=..., spacing=...) in memory
NormalizedOn(measured_data, spacing, offset, heap) ==
    MeasuredData__new__("Normalized", measured_data, measured_data.dtype,
                        Normalized(Deref(heap, measured_data), spacing, offset).val, heap)

\* AnalogWaveform.transform_to_type(as_type): the memory after the call and
\* the waveform returned
transform_to_type(self, as_type, heap) ==
    LET made == RawSampleOn(self.y_axis_values, as_type, heap)
        ratio == QDiv(calculate_spacing(made.heap, made.arr),
                      calculate_spacing(heap, self.y_axis_values))
        offset == Setattr(self, "y_axis_offset",
                          calculate_offset(heap, self.y_axis_values, self.y_axis_offset))
        retyped == Setattr(offset, "y_axis_values", made.arr)
    IN  [heap |-> made.heap,
         out |-> Setattr(retyped, "y_axis_spacing", QMul(QOfFx(self.y_axis_spacing), ratio))]

\* AnalogWaveform.transform_to_normalized()
transform_to_normalized(self, heap) ==
    LET new_spacing == QDiv(QOfFx(self.y_axis_spacing),
                            calculate_spacing(heap, self.y_axis_values))
        ratio == QDiv(QOfInt(1), QMul(calculate_spacing(heap, self.y_axis_values),
                                      new_spacing))
        made == NormalizedOn(self.y_axis_values, self.y_axis_spacing, self.y_axis_offset,
                             heap)
        normalized == Setattr(self, "y_axis_values", made.arr)
        spaced == Setattr(normalized, "y_axis_spacing",
                          QMul(QOfFx(self.y_axis_spacing), ratio))
    IN  [heap |-> made.heap, out |-> Setattr(spaced, "y_axis_offset", <<0, 1>>)]

\* transform_to_type(as_type) of a waveform of value arrays: the waveform
\* returned, its floats as fixed-point values
TransformedToType(waveform, as_type) ==
    LET call == transform_to_type(
                    [waveform EXCEPT !.y_axis_values =
                        [cls |-> @.cls, dtype |-> @.dtype, buf |-> 1]],
                    as_type, <<waveform.y_axis_values.data>>)
    IN  [call.out EXCEPT !.y_axis_values = Deref(call.heap, @),
                         !.y_axis_spacing = QToFx(@),
                         !.y_axis_offset = QToFx(@)]

\* the end of the Analog codec's _waveform_vertical_values_to_format
AnalogToFormat(output_waveform, formatted_data) ==
    LET explicit ==
            setup_explicit_dimensions(formatted_data,
                [ExplicitArgs EXCEPT
                    !.units = output_waveform.y_axis_units,
                    !.scale = output_waveform.y_axis_spacing,
                    !.offset = output_waveform.y_axis_offset,
                    !.curve_format = CurveFormat(output_waveform.y_axis_values.dtype)])
    IN  Ok(SetAttr(explicit.val, "curve_buffer", output_waveform.y_axis_values))

\* _waveform_vertical_values_to_format of each codec
waveform_vertical_values_to_format(kind, waveform, formatted_data) ==
    CASE kind = "analog" ->
           CASE waveform.y_axis_values.cls = "MeasuredData" -> Raise("NotImplementedError")
             [] waveform.y_axis_values.cls = "RawSample" ->
                  AnalogToFormat(waveform, formatted_data)
             [] OTHER -> AnalogToFormat(TransformedToType(waveform, "i2"), formatted_data)
      [] kind = "iq" ->
           LET explicit_data ==
                   IF waveform.interleaved_iq_axis_values.cls # "RawSample"
                   THEN RawSampleAs(waveform.interleaved_iq_axis_values, "i2")
                   ELSE Ok(waveform.interleaved_iq_axis_values)
               explicit ==
                   setup_explicit_dimensions(formatted_data,
                       [ExplicitArgs EXCEPT
                           !.units = waveform.iq_axis_units,
                           !.scale = waveform.iq_axis_spacing,
                           !.offset = waveform.iq_axis_spacing,
                           !.curve_format = CurveFormat(explicit_data.val.dtype),
                           !.storage_type = EXPLICIT_MIN_MAX])
           IN  IF Failed(explicit_data) THEN explicit_data
               ELSE Ok(SetAttr(explicit.val, "curve_buffer", explicit_data.val))
      [] kind = "digital" ->
           LET explicit_data == RawSampleAs(waveform.y_axis_byte_values, "i1")
               explicit ==
                   setup_explicit_dimensions(formatted_data,
                       [ExplicitArgs EXCEPT
                           !.units = waveform.y_axis_units,
                           !.curve_format = CurveFormat(explicit_data.val.dtype)])
               buffered == SetAttr(explicit.val, "curve_buffer", explicit_data.val)
               implicit ==
                   setup_implicit_dimensions(buffered,
                       [ImplicitArgs EXCEPT
                           !.units = waveform.x_axis_units,
                           !.scale = waveform.x_axis_spacing,
                           !.offset = FxNeg(FxMul(The(waveform.trigger_index),
                                                  waveform.x_axis_spacing))])
           IN  IF Failed(explicit_data) THEN explicit_data
               ELSE IF IsNone(waveform.trigger_index)
               THEN RaiseAfter(Raise("TypeError"), buffered)
               ELSE IF Failed(implicit) THEN RaiseAfter(implicit, buffered)
               ELSE setup_header(implicit.val, DIGITAL)

\* a variant of the end of write_datum in which the codec has assigned the
\* samples it converted to the waveform it was given
WritePackedInPlace(waveform, packed) ==
    [err |-> packed.err,
     waveform |-> Setattr(waveform, SampleAttr(waveform.kind), packed.self.curve_buffer),
     bytes |-> packed.bytes, formatted_data |-> packed.self]

\* the end of write_datum: packed what pack_wfm_file wrote and left
WritePacked(waveform, packed) ==
    [err |-> packed.err, waveform |-> waveform, bytes |-> packed.bytes,
     formatted_data |-> packed.self]

\* write_datum after the time axis was set up, or could not be
WriteTimed(waveform, formatted_data, implicit, endian, version_number) ==
    IF Failed(implicit)
    THEN [err |-> implicit.err, waveform |-> waveform, bytes |-> <<>>,
          formatted_data |-> formatted_data]
    ELSE WritePacked(waveform, pack_wfm_file(implicit.val, endian, version_number))

\* write_datum after the vertical values went into the assembler: bridged is
\* what the codec made of it, vertical the normalized values if they are asked
\* for and the waveform caching them
WriteBridged(waveform, formatted_data, bridged, vertical, endian, version_number) ==
    LET sized == IF IsNone(waveform.trigger_index) THEN vertical.self ELSE waveform
        trigger_index ==
            IF IsNone(waveform.trigger_index)
            THEN IF vertical.out.val.cls = "Digitized"
                 THEN FxInt(Len(vertical.out.val.data) * 8
                            * ItemSize(waveform.y_axis_byte_values.dtype)) \div 2
                 ELSE FxInt(Len(vertical.out.val.data)) \div 2
            ELSE The(waveform.trigger_index)
    IN  IF Failed(bridged)
        THEN [err |-> bridged.err, waveform |-> waveform, bytes |-> <<>>,
              formatted_data |-> formatted_data]
        ELSE IF IsNone(waveform.trigger_index) /\ Failed(vertical.out)
        THEN [err |-> vertical.out.err, waveform |-> waveform, bytes |-> <<>>,
              formatted_data |-> bridged.val]
        ELSE WriteTimed(sized, bridged.val,
                 IF bridged.val.implicit_dimensions = None
                 THEN setup_implicit_dimensions(bridged.val,
                          [ImplicitArgs EXCEPT
                              !.units = waveform.x_axis_units,
                              !.scale = waveform.x_axis_spacing,
                              !.offset = FxNeg(FxMul(trigger_index,
                                                     waveform.x_axis_spacing))])
                 ELSE bridged,
                 endian, version_number)

\* write_datum from the metadata on: the vertical values and the time axis
\* go into the assembler holding the metadata, and the assembler is packed
WriteFormatted(kind, waveform, formatted_data, endian, version_number) ==
    WriteBridged(waveform, formatted_data,
                 waveform_vertical_values_to_format(kind, waveform, formatted_data),
                 GetNormalizedVertical(waveform), endian, version_number)

\* WFMFile.write_datum(waveform) of the codec of a kind, for a product profile
\* with this byte order and version: the file written, the waveform and the
\* assembler after the call, and the exception if one was raised
write_datum(kind, waveform, endian, version_number) ==
    WriteFormatted(kind, waveform,
                   SetAttr(WfmFormat, "meta_data", MetadataToWrite(kind, waveform.meta_info)),
                   endian, version_number)

\* the endian marker and the version string at the head of a file: the
\* Endian and the VersionNumber, or the exception
ReadPreamble(stream) ==
    LET byte_order == UnpackBytesAt(stream, 0, 2)
        version_value == UnpackBytesAt(stream, 2, 8)
    IN  IF Failed(byte_order) THEN Raise("struct.error")
        ELSE IF byte_order.val \notin {INTEL, PPC}
        THEN Raise("ValueError: Endian Format in wfm invalid.")
        ELSE IF Failed(version_value) THEN Raise("struct.error")
        ELSE IF version_value.val \notin Versions THEN Raise("ValueError")
        ELSE Ok([endian |-> EndianPrefix(byte_order.val), version |-> version_value.val])

\* convert_bytes_to_str in read_datum: bytes that are UTF-8 become a str
convert_bytes_to_str(value) ==
    IF value.t = "bytes" /\ ~Failed(Decode(value.v))
    THEN [t |-> "str", v |-> Decode(value.v).val]
    ELSE value

\* the meta info object of the class from the converted metadata: the items
\* named by an annotated field are keyword arguments, the rest the extended
\* metadata
MetaInfoOfItems(cls, converted, known_fields) ==
    LET known_data == SelectSeq(converted, LAMBDA item : item[1] \in known_fields)
        extra_data == SelectSeq(converted, LAMBDA item : item[1] \notin known_fields)
        extended == IF extra_data = <<>> THEN None ELSE [t |-> "dict", v |-> extra_data]
    IN  IF Str("extended_metadata") \in DictKeys(known_data) THEN Raise("TypeError")
        ELSE MetaInfo(cls, Append(known_data, <<Str("extended_metadata"), extended>>))

\* the names annotated by the class and its parents
KnownFields(fields) == {fields[i].name : i \in 1..Len(fields)}

\* {k: convert_bytes_to_str(v) for k, v in remapped.items()}
ConvertItems(remapped) ==
    [i \in 1..Len(remapped) |-> <<remapped[i][1], convert_bytes_to_str(remapped[i][2])>>]

\* the meta info object read_datum builds from the metadata of the file
MetaInfoOfFile(kind, meta_data) ==
    MetaInfoOfItems(META_DATA_TYPE(kind),
                    ConvertItems(remap(Inverse(META_DATA_LOOKUP(kind)), meta_data)),
                    KnownFields(MetaFields(META_DATA_TYPE(kind))))

\* _format_to_waveform_vertical_values of each codec
format_to_waveform_vertical_values(kind, waveform, formatted_data) ==
    LET first == The(formatted_data.explicit_dimensions).first
        units == [t |-> "bytes", v |-> first.units]
        sampled == Setattr(waveform, SampleAttr(kind), formatted_data.curve_buffer)
    IN  CASE formatted_data.explicit_dimensions = None -> sampled
          [] kind = "analog" ->
               Setattr(Setattr(Setattr(sampled, "y_axis_offset", first.offset),
                               "y_axis_spacing", first.scale),
                       "y_axis_units", units)
          [] kind = "iq" ->
               Setattr(Setattr(Setattr(sampled, "iq_axis_offset", first.offset),
                               "iq_axis_spacing", first.scale),
                       "iq_axis_units", units)
          [] kind = "digital" -> Setattr(sampled, "y_axis_units", units)

\* the end of read_datum: the waveform of the kind from the assembler and the
\* meta info object, or what its construction raised
ReadWaveform(kind, formatted_data, meta_data) ==
    LET implicit == The(formatted_data.implicit_dimensions).first
        timed == Setattr(Setattr(Setattr(DATUM_TYPE(kind),
                                         "x_axis_units", [t |-> "bytes", v |-> implicit.units]),
                                 "x_axis_spacing", implicit.scale),
                         "trigger_index",
                         Some(IF implicit.offset = 0 THEN 0
                              ELSE FxDiv(FxNeg(implicit.offset), implicit.scale)))
        waveform == Setattr(timed, "meta_info", Some(meta_data.val))
    IN  IF Failed(meta_data) THEN meta_data
        ELSE IF implicit.scale = 0 THEN Raise("ZeroDivisionError")
        ELSE Ok(format_to_waveform_vertical_values(kind, waveform, formatted_data))

\* read_datum once unpack_wfm_file returned or raised
ReadUnpacked(kind, formatted_data) ==
    IF Failed(formatted_data) THEN Raise(formatted_data.err)
    ELSE ReadWaveform(kind, formatted_data.val,
                      MetaInfoOfFile(kind, formatted_data.val.meta_data))

\* WFMFile.read_datum() of the codec of a kind on a file opened at its start
read_datum(kind, stream) ==
    LET preamble == ReadPreamble(stream)
    IN  IF Failed(preamble) THEN preamble
        ELSE ReadUnpacked(kind, unpack_wfm_file(WfmFormat, preamble.val.endian,
                                                preamble.val.version, stream, 10))

\* the return of _get_metadata_for_check_style, meta_data what parse_tekmeta
\* returned or raised
ProbedMetadata(meta_data, endian) ==
    IF Failed(meta_data) THEN Raise(meta_data.err)
    ELSE Ok([meta_data |-> meta_data.val, endian |-> endian])

\* WFMFile._get_metadata_for_check_style: the metadata parsed from where the
\* offset stored at byte 11 points, and the Endian
get_metadata_for_check_style(stream) ==
    LET preamble == ReadPreamble(stream)
        e == preamble.val.endian.struct
        curve_local == UnpackAt(e, "UnsignedLong", stream, 11)
        target == curve_local.val - 5
                  + (IF preamble.val.version = VersionTHREE THEN 20 ELSE 0)
    IN  IF Failed(preamble) THEN preamble
        ELSE IF Failed(curve_local) THEN Raise("struct.error")
        ELSE IF target < 0 THEN Raise("OSError")
        ELSE ProbedMetadata(parse_tekmeta(e, stream, target), preamble.val.endian)

\* _check_metadata of each codec
check_metadata(kind, meta_data) ==
    CASE kind = "analog" -> ~Failed(MetaInfo("WaveformMetaInfo", <<>>))
      [] kind = "iq" -> \E i \in 1..Len(IQKeys) : Str(IQKeys[i]) \in DictKeys(meta_data)
      [] kind = "digital" ->
           \E i \in 1..Len(DigitalKeys) : Str(DigitalKeys[i]) \in DictKeys(meta_data)

\* the data type of the header of the file is DIGITAL
HeaderIsDigital(head) == ~Failed(head) /\ head.val[2].data_type = DIGITAL

\* check_style() once _get_metadata_for_check_style returned or raised
StyleOf(kind, stream, probed) ==
    IF Failed(probed) THEN probed
    ELSE IF check_metadata(kind, probed.val.meta_data) THEN Ok(TRUE)
    ELSE IF kind = "digital" /\ probed.val.meta_data = <<>>
    THEN Ok(HeaderIsDigital(UnpackEach(probed.val.endian.struct,
                                       <<"WaveformStaticFileInfo", "WaveformHeader">>,
                                       stream, 10)))
    ELSE Ok(FALSE)

\* check_style() of each codec on a file opened at its start
check_style(kind, stream) == StyleOf(kind, stream, get_metadata_for_check_style(stream))

RECURSIVE ReadFileFrom(_, _)
\* one pass of the loop of read_file, accepted what check_style returned or
\* raised for candidate i
ReadAccepted(accepted, stream, i) ==
    IF Failed(accepted) THEN [consulted |-> <<WFMFormats[i]>>, out |-> accepted]
    ELSE IF accepted.val
    THEN [consulted |-> <<WFMFormats[i]>>, out |-> read_datum(WFMFormats[i], stream)]
    ELSE [ReadFileFrom(stream, i + 1) EXCEPT !.consulted = <<WFMFormats[i]>> \o @]

\* the loop of read_file from the i-th candidate on: the codecs consulted and
\* what the call returns or raises
ReadFileFrom(stream, i) ==
    IF i > Len(WFMFormats)
    THEN [consulted |-> <<>>, out |-> Raise("TypeError")]
    ELSE ReadAccepted(check_style(WFMFormats[i], stream), stream, i)

\* read_file(file_path) on a .wfm path holding these bytes
read_file(stream) == ReadFileFrom(stream, 1)

\* write_file(path, waveform) on a .wfm path: the codec of the waveform's type
\* with the default product, TEKSCOPE
write_file(waveform) == write_datum(waveform.kind, waveform, EndianPrefix(PPC), VersionTHREE)

----------------------------------------------------------------------------
(* Writing a waveform to a .wfm file and reading it back.  w is the         *)
(* waveform the caller holds, fd the file, fmt the assembler the write      *)
(* filled, ret the outcome of the last call, hist the step reached.         *)

\* the element types a curve buffer can have, by the kind of waveform written
CurveDTypes(kind) ==
    CASE kind = "analog" -> {"i2", "i4", "u4", "u8", "f4", "f8", "u1", "i1"}
      [] kind = "iq" -> {"i2", "i1"}
      [] kind = "digital" -> {"i1", "u1"}

\* n samples 1, -2, 3, ... (1, 2, 3, ... of an unsigned type)
Samples(dtype, n) ==
    NdArray(dtype, [i \in 1..n |-> IF i % 2 = 0 /\ dtype \notin UnsignedDTypes
                                   THEN 0 - i ELSE i])

\* the lengths of the arrays written: an IQ array interleaves n pairs
SampleCounts(kind) == IF kind = "iq" THEN {2 * n : n \in 1..MaxLen} ELSE 1..MaxLen

\* a unit text longer than the 20 bytes of a units field: 21 times "V"
LongUnits == [t |-> "str", v |-> [i \in 1..21 |-> 86]]

\* the meta info a caller attaches: none, or an object of the class of the kind
MetaInfoInputs(kind) ==
    <<None,
      Some(MetaInfo(META_DATA_TYPE(kind),
                    IF kind = "iq"
                    THEN <<<<Str("iq_center_frequency"), [t |-> "float", v |-> FxInt(1)]>>,
                           <<Str("iq_fft_length"), [t |-> "float", v |-> 0]>>,
                           <<Str("iq_resolution_bandwidth"), [t |-> "float", v |-> FxInt(1)]>>,
                           <<Str("iq_span"), [t |-> "float", v |-> FxInt(2)]>>,
                           <<Str("iq_window_type"), [t |-> "str", v |-> Str("Hanning")]>>>>
                    ELSE <<>>).val)>>

\* a waveform of a kind with its attributes assigned one by one
NewWaveform(kind, samples, spacing, offset, units, trigger_index, meta_info) ==
    LET sampled == Setattr(DATUM_TYPE(kind), SampleAttr(kind), samples)
        scaled == CASE kind = "analog" ->
                         Setattr(Setattr(Setattr(sampled, "y_axis_spacing", spacing),
                                         "y_axis_offset", offset), "y_axis_units", units)
                    [] kind = "iq" ->
                         Setattr(Setattr(Setattr(sampled, "iq_axis_spacing", spacing),
                                         "iq_axis_offset", offset), "iq_axis_units", units)
                    [] kind = "digital" -> Setattr(sampled, "y_axis_units", units)
    IN  Setattr(Setattr(scaled, "trigger_index", trigger_index), "meta_info", meta_info)

InitRoundTrip ==
    /\ w \in {AnalogWaveform, IQWaveform, DigitalWaveform}
    /\ ret = [op |-> "init"]
    /\ hist = "new"
    /\ fmt = None
    /\ fd = None

\* every element type is written with the plain attributes; the attributes vary
\* on 16-bit samples, the long units on an otherwise plain analog waveform
SetUpWaveform ==
    /\ hist = "new"
    /\ \E dtype \in CurveDTypes(w.kind), n \in SampleCounts(w.kind),
          spacing \in Spacings, offset \in Offsets, units \in {UnitV, LongUnits},
          trigger_index \in {None, Some(FxInt(1) + 1)}, m \in 1..2 :
            LET plain == spacing = FxInt(1) /\ offset = 0 /\ m = 1
                                            /\ trigger_index # None
            IN  /\ dtype \notin {"i2", "u1"} => plain /\ units = UnitV
                /\ units = LongUnits => plain /\ w.kind = "analog"
                /\ w.kind = "digital" => spacing = FxInt(1) /\ offset = 0
                /\ w' = NewWaveform(w.kind, Samples(dtype, n), spacing, offset, units,
                                    trigger_index, MetaInfoInputs(w.kind)[m])
    /\ hist' = "ready"
    /\ ret' = [op |-> "set_up"]
    /\ UNCHANGED <<fmt, fd>>

\* the codec of the waveform's kind writes it, under any byte order and version
WriteDatum ==
    /\ hist = "ready"
    /\ \E version_number \in Versions, format \in {INTEL, PPC} :
          \E written \in {write_datum(w.kind, w, EndianPrefix(format), version_number)} :
              /\ w' = written.waveform
              /\ fmt' = written.formatted_data
              /\ fd' = [endian |-> EndianPrefix(format).struct,
                        version |-> version_number, bytes |-> written.bytes]
              /\ ret' = [op |-> "write_datum", err |-> written.err]
    /\ hist' = "written"

\* the same codec reads the file back
ReadDatum ==
    /\ hist = "written"
    /\ ret.err = ""
    /\ ret' = [op |-> "read_datum", out |-> read_datum(w.kind, fd.bytes)]
    /\ hist' = "read"
    /\ UNCHANGED <<w, fmt, fd>>

WriteFile ==
    /\ hist = "ready"
    /\ \E written \in {write_file(w)} :
           /\ w' = written.waveform
           /\ fmt' = written.formatted_data
           /\ fd' = [endian |-> EndianPrefix(PPC).struct, version |-> VersionTHREE,
                     bytes |-> written.bytes]
           /\ ret' = [op |-> "write_file", err |-> written.err]
    /\ hist' = "file_written"

ReadFile ==
    /\ hist = "file_written"
    /\ ret.err = ""
    /\ \E read \in {read_file(fd.bytes)} :
           ret' = [op |-> "read_file", out |-> read.out, consulted |-> read.consulted]
    /\ hist' = "file_read"
    /\ UNCHANGED <<w, fmt, fd>>

NextRoundTrip ==
    \/ SetUpWaveform
    \/ WriteDatum
    \/ ReadDatum
    \/ WriteFile
    \/ ReadFile

SpecRoundTrip == InitRoundTrip /\ [][NextRoundTrip]_vars

\* the analog waveform read back carries the samples, spacing and offset written
SameAnalog(read, written) ==
    /\ read.kind = "analog"
    /\ read.y_axis_values.dtype = written.y_axis_values.dtype
    /\ read.y_axis_values.data = written.y_axis_values.data
    /\ read.y_axis_spacing = written.y_axis_spacing
    /\ read.y_axis_offset = written.y_axis_offset

\* C1: for every version and byte order, an analog waveform of RawSample values
\* of any of the eight element types is written without error, and the file
\* reads back with the same samples, y_axis_spacing and y_axis_offset.
C1_AnalogRoundTrip ==
    (w.kind = "analog" /\ hist \in {"written", "read"}) =>
        /\ ret.op = "write_datum" => ret.err = ""
        /\ ret.op = "read_datum" => ~Failed(ret.out) /\ SameAnalog(ret.out.val, w)

\* versions TWO and THREE do round-trip every such waveform
C1_LaterVersionsRoundTrip ==
    (w.kind = "analog" /\ hist \in {"written", "read"} /\ fd.version # VersionONE) =>
        /\ ret.op = "write_datum" => ret.err = ""
        /\ ret.op = "read_datum" => ~Failed(ret.out) /\ SameAnalog(ret.out.val, w)

\* two waveforms have the same normalized values and trigger index
SameNormalized(read, written) ==
    /\ read.kind = written.kind
    /\ read.trigger_index = written.trigger_index
    /\ ComputeNormalizedVertical(read) = ComputeNormalizedVertical(written)
    /\ ComputeNormalizedHorizontal(read) = ComputeNormalizedHorizontal(written)

\* C2: for every kind of waveform with a trigger index, read_file(write_file(w))
\* yields a waveform with the trigger_index, the normalized_vertical_values and
\* the normalized_horizontal_values of w.
C2_ReadWritePreserves ==
    (hist = "file_read" /\ w.trigger_index # None) =>
        ~Failed(ret.out) /\ SameNormalized(ret.out.val, w)

\* the same for analog waveforms alone
C2_AnalogPreserved ==
    (hist = "file_read" /\ w.trigger_index # None /\ w.kind = "analog") =>
        ~Failed(ret.out) /\ SameNormalized(ret.out.val, w)

\* where the stored checksum starts: ahead of it and the tekmeta block
ChecksumOffset == Len(fd.bytes) - Len(write_tekmeta(fd.endian, fmt.meta_data).val) - 8

\* C3: in every file written, the stored u64 file_checksum is the sum of all
\* the bytes written before it, each taken as an unsigned 8-bit value.
C3_ChecksumIsByteSum ==
    (hist \in {"written", "file_written"} /\ ret.err = "") =>
        Unpack(fd.endian, "UnsignedLongLong",
               SubSeq(fd.bytes, ChecksumOffset + 1, ChecksumOffset + 8))
            = ByteSum(SubSeq(fd.bytes, 1, ChecksumOffset))

\* it is, for units of at most 20 bytes
C3_ChecksumOfShortUnits ==
    (hist \in {"written", "file_written"} /\ ret.err = ""
        /\ (w.kind = "analog" => w.y_axis_units # LongUnits)) =>
        Unpack(fd.endian, "UnsignedLongLong",
               SubSeq(fd.bytes, ChecksumOffset + 1, ChecksumOffset + 8))
            = ByteSum(SubSeq(fd.bytes, 1, ChecksumOffset))

----------------------------------------------------------------------------
(* Reading .wfm files that were not written from a waveform of this        *)
(* library: any tekmeta content under any header, and files cut before the *)
(* tekmeta block.  fd is the file, fmt the assembler that packed it, w the *)
(* waveform whose samples it holds, ret the outcome of the last call.      *)

\* what the tekmeta block of a file holds: nothing, probe keys, the IQ keys of
\* an IQ meta info, one IQ key, keys of both, and keys of neither
FileMetas ==
    <<<<>>,
      <<<<Str("d0"), [t |-> "bytes", v |-> <<48, 120, 48, 49>>]>>>>,
      <<<<Str("d3"), [t |-> "int", v |-> 1]>>>>,
      MetadataToWrite("iq", MetaInfoInputs("iq")[2]),
      <<<<Str("IQ_rbw"), [t |-> "float", v |-> FxInt(1)]>>>>,
      <<<<Str("IQ_span"), [t |-> "float", v |-> FxInt(2)]>>,
        <<Str("d7"), [t |-> "int", v |-> 1]>>>>,
      <<<<Str("waveform_label"), [t |-> "str", v |-> <<104, 105>>]>>>>,
      <<<<Str("yOffset"), [t |-> "float", v |-> FxInt(1)]>>>>>>

\* the waveform a file of a kind is laid out from: two samples
FileWaveform(kind) ==
    NewWaveform(kind, Samples(IF kind = "digital" THEN "i1" ELSE "i2", 2),
                FxInt(2), FxInt(1), UnitV, Some(FxInt(1) + 1), None)

InitFiles ==
    /\ w = None
    /\ ret = [op |-> "init"]
    /\ hist = "none"
    /\ fmt = None
    /\ fd = None

\* a file laid out as the codec of a kind lays it out, holding the chosen
\* metadata in its tekmeta block
PackFile ==
    /\ hist = "none"
    /\ \E i \in 1..Len(WFMFormats), metas \in {FileMetas}, format \in {INTEL, PPC},
          version_number \in {VersionTWO, VersionTHREE} :
          \E m \in DOMAIN metas :
          \E written \in {WriteFormatted(WFMFormats[i], FileWaveform(WFMFormats[i]),
                                         SetAttr(WfmFormat, "meta_data", metas[m]),
                                         EndianPrefix(format), version_number)} :
              /\ written.err = ""
              /\ w' = written.waveform
              /\ fmt' = written.formatted_data
              /\ fd' = [endian |-> EndianPrefix(format).struct, format |-> format,
                        version |-> version_number, bytes |-> written.bytes,
                        whole |-> written.bytes, tail |-> "whole",
                        tekmeta |-> metas[m],
                        data_type |-> The(written.formatted_data.header).data_type]
    /\ hist' = "packed"
    /\ ret' = [op |-> "pack"]

\* the file is cut after the post buffer or after the file_checksum
StripTekmeta ==
    /\ hist = "packed"
    /\ \E keep \in {0, 8} :
          fd' = [fd EXCEPT !.bytes = SubSeq(@, 1, ChecksumOffset + keep),
                           !.tail = IF keep = 0 THEN "none" ELSE "checksum",
                           !.tekmeta = <<>>]
    /\ hist' = "stripped"
    /\ ret' = [op |-> "strip"]
    /\ UNCHANGED <<w, fmt>>

\* read_file on the path of the file
ReadWfm ==
    /\ hist \in {"packed", "stripped"}
    /\ \E read \in {read_file(fd.bytes)} :
           ret' = [op |-> "read_file", out |-> read.out, consulted |-> read.consulted]
    /\ hist' = "read"
    /\ UNCHANGED <<w, fmt, fd>>

\* WfmFormat().unpack_wfm_file on the file, opened past its preamble
UnpackWfm ==
    /\ hist \in {"packed", "stripped"}
    /\ ret' = [op |-> "unpack_wfm_file",
               out |-> unpack_wfm_file(WfmFormat, EndianPrefix(fd.format), fd.version,
                                       fd.bytes, 10)]
    /\ hist' = "unpacked"
    /\ UNCHANGED <<w, fmt, fd>>

NextFiles ==
    \/ PackFile
    \/ StripTekmeta
    \/ ReadWfm
    \/ UnpackWfm

SpecFiles == InitFiles /\ [][NextFiles]_vars

HoldsAny(keys, meta_data) ==
    \E i \in 1..Len(keys) : Str(keys[i]) \in DictKeys(meta_data)

\* the codec the content of the file calls for: Digital for a probe key d0..d7,
\* or for an empty tekmeta under a DIGITAL header; else IQ for one of the six
\* IQ_ keys; else Analog
CodecOfContent ==
    IF HoldsAny(DigitalKeys, fd.tekmeta) \/ (fd.tekmeta = <<>> /\ fd.data_type = DIGITAL)
    THEN "digital"
    ELSE IF HoldsAny(IQKeys, fd.tekmeta) THEN "iq"
    ELSE "analog"

\* C7: read_file consults the codecs in the order Digital, IQ, Analog, stops at
\* the first whose check_style accepts and returns what that codec's read_datum
\* gives; the codec reached is Digital for a file with a key d0..d7 (or with an
\* empty tekmeta and a DIGITAL header), else IQ for a file with an IQ_ key,
\* else Analog.
C7_FirstAcceptWins ==
    ret.op = "read_file" =>
        LET order == <<"digital", "iq", "analog">>
            n == Len(ret.consulted)
        IN  /\ n \in 1..3
            /\ ret.consulted = SubSeq(order, 1, n)
            /\ order[n] = CodecOfContent
            /\ ret.out = read_datum(CodecOfContent, fd.bytes)

\* an IQ file is read by the IQ codec after Digital declined, Analog unasked
C7_Witness ==
    /\ ret.op = "read_file"
    /\ HoldsAny(IQKeys, fd.tekmeta)
    /\ ret.consulted = <<"digital", "iq">>
    /\ ~Failed(ret.out)
    /\ ret.out.val.kind = "iq"

\* the parts of the assembler that hold the samples and their scaling
SampleSlots ==
    {"precharge_buffer", "curve_buffer", "postcharge_buffer",
     "explicit_dimensions", "implicit_dimensions"}

\* C9: a file cut before its tekmeta block, with or without the file_checksum
\* left, unpacks and reads without error: the metadata is empty and the
\* buffers, spacings and offsets are those the whole file gives.
C9_MissingTekmetaReads ==
    fd # None /\ fd.tail # "whole" =>
        /\ ret.op = "unpack_wfm_file" =>
              LET whole == unpack_wfm_file(WfmFormat, EndianPrefix(fd.format),
                                           fd.version, fd.whole, 10)
              IN  /\ ~Failed(ret.out)
                  /\ ~Failed(whole)
                  /\ ret.out.val.meta_data = <<>>
                  /\ \A slot \in SampleSlots : ret.out.val[slot] = whole.val[slot]
        /\ ret.op = "read_file" =>
              /\ ~Failed(ret.out)
              /\ DictGet(The(ret.out.val.meta_info).dict, Str("extended_metadata")) = None
              /\ ret.out.val[SampleAttr(ret.out.val.kind)].data = fmt.curve_buffer.data

\* a file left without file_checksum and tekmeta block was unpacked
C9_Witness ==
    /\ fd # None
    /\ fd.tail = "none"
    /\ ret.op = "unpack_wfm_file"
    /\ ~Failed(ret.out)
    /\ ret.out.val.curve_buffer.data = <<1, 0 - 2>>

----------------------------------------------------------------------------
(* Paths: write_file and read_file choose the codecs by the extension of    *)
(* the path.  fd is the one file of the directory, None while there is      *)
(* none; w is the waveform the caller holds; ret is the outcome of the last *)
(* call, opened telling whether the call reached the open of a file.        *)
(* The CSV and MAT codecs are not part of this model: no path given to the  *)
(* calls has one of their extensions.                                       *)

\* os.path.splitext(p) on a POSIX path: <<root, ext>>; the extension starts at
\* the last dot of the last component, unless only dots precede it there
splitext(p) ==
    LET seps == {i \in 1..Len(p) : p[i] = 47}
        sep == IF seps = {} THEN 0 ELSE CHOOSE i \in seps : \A j \in seps : j <= i
        dots == {i \in 1..Len(p) : p[i] = 46}
        dot == IF dots = {} THEN 0 ELSE CHOOSE i \in dots : \A j \in dots : j <= i
        named == {i \in (sep + 1)..(dot - 1) : p[i] # 46}
    IN  IF dot > sep /\ named # {}
        THEN <<SubSeq(p, 1, dot - 1), SubSeq(p, dot, Len(p))>>
        ELSE <<p, <<>>>>

\* the member names of FileExtensions, as code points, and the members
FileExtensions ==
    <<<<<<67, 83, 86>>, "CSV">>, <<<<87, 70, 77>>, "WFM">>, <<<<77, 65, 84>>, "MAT">>,
      <<<<87, 70, 77, 88>>, "WFMX">>>>

\* FileExtensions[path_extension.replace(".", "").upper()]: the member, or
\* the KeyError of a name that is no member
FileExtensionOf(path_extension) ==
    LET name == Upper(SelectSeq(path_extension, LAMBDA c : c # 46))
        hits == {i \in 1..Len(FileExtensions) : FileExtensions[i][1] = name}
    IN  IF hits = {} THEN Raise("KeyError")
        ELSE Ok(FileExtensions[CHOOSE i \in hits : TRUE][2])

\* class_lookup.handle_extensions: the codec set of an extension
handle_extensions(extension) ==
    CASE extension = "CSV" -> Ok("CSVFormats")
      [] extension = "WFM" -> Ok("WFMFormats")
      [] extension = "MAT" -> Ok("MATFormats")
      [] OTHER -> Raise("KeyError")

\* the outcome of a call that raised before it opened a file
RaisedUnopened(err, msg) == [err |-> err, msg |-> msg, opened |-> FALSE]

\* the outcome of a write_file that opened the file: written is what
\* write_datum wrote and raised
Wrote(written) ==
    [out |-> [err |-> written.err, msg |-> <<>>, opened |-> TRUE], written |-> Some(written)]

\* the outcome of a read_file that opened the file: read is what the loop
\* over the codecs returned or raised
DidRead(read) ==
    [out |-> [err |-> read.out.err, msg |-> <<>>, opened |-> TRUE], read |-> Some(read)]

\* write_file(path, waveform) with the default product into a directory
\* without the file: the outcome, and the file the call leaves
write_file_to(path, waveform) ==
    LET path_extension == splitext(path)[2]
        file_extension == FileExtensionOf(path_extension)
        format_lookup == handle_extensions(file_extension.val)
    IN  IF Failed(file_extension)
        THEN [out |-> RaisedUnopened("IOError",
                          <<"The ", path_extension, " extension cannot be written to.">>),
              written |-> None]
        ELSE IF Failed(format_lookup)
        THEN [out |-> RaisedUnopened("KeyError",
                          <<"Extension ", file_extension.val,
                            " cannot be written or read from.">>),
              written |-> None]
        ELSE CASE format_lookup.val = "WFMFormats" -> Wrote(write_file(waveform))

\* read_file(file_path) in a directory whose one file, if any, is disk
read_file_from(file_path, disk) ==
    LET path_extension == splitext(file_path)[2]
        file_extension == FileExtensionOf(path_extension)
        format_lookup == handle_extensions(file_extension.val)
    IN  IF Failed(file_extension)
        THEN [out |-> RaisedUnopened("IOError",
                          <<"The ", path_extension, " extension cannot be read from.">>),
              read |-> None]
        ELSE IF Failed(format_lookup)
        THEN [out |-> RaisedUnopened("KeyError",
                          <<"Extension ", file_extension.val,
                            " cannot be written or read from.">>),
              read |-> None]
        ELSE IF disk = None \/ The(disk).path # file_path
        THEN [out |-> [err |-> "FileNotFoundError", msg |-> <<>>, opened |-> TRUE],
              read |-> None]
        ELSE CASE format_lookup.val = "WFMFormats" -> DidRead(read_file(The(disk).bytes))

\* the spellings of a lower-case word with any of its letters in upper case
CaseVariants(lower) ==
    {[i \in 1..Len(lower) |-> IF i \in U THEN lower[i] - 32 ELSE lower[i]] :
        U \in SUBSET (1..Len(lower))}

\* the paths given to the calls: "a" with no extension, with an empty one, and
\* with .wfm, .wfmx, .kkw and .wf in every case; ".wfm", whose leading dot
\* starts no extension; and a file in a directory whose name has a dot
PathInputs ==
    {<<97>>, <<97, 46>>, <<46, 119, 102, 109>>, <<100, 46, 120, 47, 97>>}
    \cup {<<97, 46>> \o e : e \in CaseVariants(<<119, 102, 109>>)
                               \cup CaseVariants(<<119, 102, 109, 120>>)
                               \cup CaseVariants(<<107, 107, 119>>)
                               \cup CaseVariants(<<119, 102>>)}
    \cup {<<100, 46, 120, 47, 97, 46>> \o e :
              e \in {<<119, 102, 109>>, <<119, 102, 109, 120>>, <<107, 107, 119>>}}

InitPaths ==
    /\ \E i \in 1..Len(WFMFormats) : w = FileWaveform(WFMFormats[i])
    /\ ret = [op |-> "init"]
    /\ hist = "none"
    /\ fmt = None
    /\ fd = None

\* write_file(path, w) with the default product
WritePath ==
    /\ hist = "none"
    /\ \E path \in PathInputs :
          \E call \in {write_file_to(path, w)} :
              /\ ret' = [op |-> "write_file", path |-> path, err |-> call.out.err,
                         msg |-> call.out.msg, opened |-> call.out.opened]
              /\ IF call.written = None THEN UNCHANGED <<w, fmt, fd>>
                 ELSE /\ w' = The(call.written).waveform
                      /\ fmt' = The(call.written).formatted_data
                      /\ fd' = Some([path |-> path, bytes |-> The(call.written).bytes])
    /\ hist' = "written"

\* read_file(path)
ReadPath ==
    /\ hist \in {"none", "written"}
    /\ \E path \in PathInputs :
          \E call \in {read_file_from(path, fd)} :
              ret' = [op |-> "read_file", path |-> path, err |-> call.out.err,
                      msg |-> call.out.msg, opened |-> call.out.opened,
                      out |-> IF call.read = None THEN None
                              ELSE Some(The(call.read).out)]
    /\ hist' = "read"
    /\ UNCHANGED <<w, fmt, fd>>

NextPaths ==
    \/ WritePath
    \/ ReadPath

SpecPaths == InitPaths /\ [][NextPaths]_vars

\* the extension of the path of the last call names none of the codec sets
NoCodecSet ==
    Upper(SelectSeq(splitext(ret.path)[2], LAMBDA c : c # 46))
        \notin {<<67, 83, 86>>, <<87, 70, 77>>, <<77, 65, 84>>}

\* C11: read_file and write_file raise IOError naming the extension, before
\* any file is opened, for every path whose extension, compared without
\* regard to case, is none of csv, wfm and mat.
C11_UnknownExtensionIsIOError ==
    (ret.op \in {"write_file", "read_file"} /\ NoCodecSet) =>
        /\ ret.err = "IOError"
        /\ ~ret.opened
        /\ ret.msg = <<"The ", splitext(ret.path)[2],
                       IF ret.op = "read_file" THEN " extension cannot be read from."
                       ELSE " extension cannot be written to.">>

\* the same for the extensions that are no member of FileExtensions
C11_NonMemberIsIOError ==
    (ret.op \in {"write_file", "read_file"} /\ NoCodecSet
        /\ Upper(SelectSeq(splitext(ret.path)[2], LAMBDA c : c # 46)) # <<87, 70, 77, 88>>) =>
        /\ ret.err = "IOError"
        /\ ~ret.opened
        /\ ret.msg = <<"The ", splitext(ret.path)[2],
                       IF ret.op = "read_file" THEN " extension cannot be read from."
                       ELSE " extension cannot be written to.">>

\* a path with a .wfm extension in upper case was written and read back
C11_ReadBack ==
    ret.op = "read_file" /\ ret.err = "" /\ ret.path = <<97, 46, 87, 70, 77>>

----------------------------------------------------------------------------
(* Metadata through a .wfm file: a waveform of each kind carrying a meta   *)
(* info object with recognized fields and extended_metadata is written by  *)
(* write_file and read back by read_file.  w is the waveform written, fd   *)
(* the file, ret the outcome of the last call.                             *)

\* the extended_metadata a caller sets: none, or one key holding a str, an int,
\* a float or a bytes value
ExtendedInputs ==
    <<None,
      [t |-> "dict", v |-> <<<<<<110, 111, 116, 101>>, [t |-> "str", v |-> <<97, 98>>]>>>>],
      [t |-> "dict", v |-> <<<<<<114, 117, 110>>, [t |-> "int", v |-> 3]>>>>],
      [t |-> "dict", v |-> <<<<<<103, 97, 105, 110>>, [t |-> "float", v |-> 1]>>>>],
      [t |-> "dict", v |-> <<<<<<114, 97, 119>>, [t |-> "bytes", v |-> <<97, 98>>]>>>>]>>

\* the keyword arguments every meta info class takes
LabelArgs(label, extended) ==
    <<<<Str("waveform_label"), [t |-> "str", v |-> label]>>,
      <<Str("extended_metadata"), extended>>>>

\* the keyword arguments of the meta info object of a kind
MetaInfoArgs(kind, label, y_offset, extended) ==
    CASE kind = "analog" -> LabelArgs(label, extended) \o <<<<Str("y_offset"), y_offset>>>>
      [] kind = "iq" ->
           LabelArgs(label, extended) \o <<<<Str("y_offset"), y_offset>>>>
           \o <<<<Str("iq_center_frequency"), [t |-> "float", v |-> FxInt(1)]>>,
                <<Str("iq_fft_length"), [t |-> "float", v |-> 0]>>,
                <<Str("iq_resolution_bandwidth"), [t |-> "float", v |-> FxInt(1)]>>,
                <<Str("iq_span"), [t |-> "float", v |-> FxInt(2)]>>,
                <<Str("iq_window_type"), [t |-> "str", v |-> Str("Hanning")]>>>>
      [] kind = "digital" -> LabelArgs(label, extended)

\* waveform.meta_info = META_DATA_TYPE(**kwargs) on a waveform of two samples
AttachMetaInfo ==
    /\ hist = "new"
    /\ \E label \in {<<>>, <<99, 104>>},
          y_offset \in {None, [t |-> "float", v |-> 1]},
          e \in DOMAIN ExtendedInputs :
          \E meta_info \in {MetaInfo(META_DATA_TYPE(w.kind),
                                     MetaInfoArgs(w.kind, label, y_offset,
                                                  ExtendedInputs[e]))} :
              /\ ~Failed(meta_info)
              /\ w' = Setattr(FileWaveform(w.kind), "meta_info", Some(meta_info.val))
    /\ hist' = "ready"
    /\ ret' = [op |-> "meta_info"]
    /\ UNCHANGED <<fmt, fd>>

NextMetadata ==
    \/ AttachMetaInfo
    \/ WriteFile
    \/ ReadFile

SpecMetadata == InitRoundTrip /\ [][NextMetadata]_vars

\* a == b of two metadata values: both None, the same whole number, the same
\* float, or the same text or bytes
EqualValue(a, b) ==
    CASE IsNone(a) \/ IsNone(b) -> IsNone(a) /\ IsNone(b)
      [] IsIntValue(a) -> IsIntValue(b) /\ a.v = b.v
      [] IsFloatValue(a) -> IsFloatValue(b) /\ a.v = b.v
      [] OTHER -> a.t = b.t /\ a.v = b.v

\* the items of the extended_metadata of a meta info object, none when it is
\* None or empty
ExtendedItems(meta_info) ==
    LET extended == DictGet(meta_info.dict, Str("extended_metadata"))
    IN  IF IsNone(extended) THEN <<>> ELSE extended.v

\* the recognized fields of a meta info object: all but extended_metadata
RecognizedItems(meta_info) ==
    SelectSeq(meta_info.dict, LAMBDA item : item[1] # Str("extended_metadata"))

\* the meta info read carries what the meta info written carried
SameMetaInfo(read, written) ==
    /\ read.cls = written.cls
    /\ \A i \in DOMAIN RecognizedItems(written) :
          EqualValue(DictGet(read.dict, RecognizedItems(written)[i][1]),
                    RecognizedItems(written)[i][2])
    /\ DictKeys(ExtendedItems(read)) = DictKeys(ExtendedItems(written))
    /\ \A k \in DictKeys(ExtendedItems(written)) :
          EqualValue(DictGet(ExtendedItems(read), k), DictGet(ExtendedItems(written), k))

\* C12: after write_file then read_file on a .wfm path, every recognized field
\* of the meta_info written reads back in the same field with an equal value,
\* the extended_metadata read holds exactly the keys written with equal values
\* (so no recognized field among them), and is empty when none was written.
C12_MetadataSurvives ==
    (hist = "file_read" /\ ~IsNone(w.meta_info)) =>
        /\ ~Failed(ret.out)
        /\ ~IsNone(ret.out.val.meta_info)
        /\ SameMetaInfo(The(ret.out.val.meta_info), The(w.meta_info))

\* it does for the analog meta info whose fields are all set and whose
\* extended values are str, int or float
C12_AnalogMetadataSurvives ==
    (/\ hist = "file_read" /\ ~IsNone(w.meta_info) /\ w.kind = "analog"
     /\ ~IsNone(DictGet(The(w.meta_info).dict, Str("y_offset")))
     /\ \A k \in DictKeys(ExtendedItems(The(w.meta_info))) :
           DictGet(ExtendedItems(The(w.meta_info)), k).t # "bytes") =>
        /\ ~Failed(ret.out)
        /\ SameMetaInfo(The(ret.out.val.meta_info), The(w.meta_info))

----------------------------------------------------------------------------
(* The parallel drivers (io_factory_methods.py): write_files_in_parallel   *)
(* and read_files_in_parallel hand slices of the paths to the tasks of a   *)
(* multiprocessing.Pool and wait on an AsyncResult.  fmt is the call, w    *)
(* the tasks of the pool, fd the directory and the manager's queue, ret    *)
(* what the driver returned or raised, hist the driver's position.         *)

\* the longest list of paths and the largest force_process_count of a call
MaxFiles == 3
MaxProcesses == 3

\* Python's round of the fraction p / q: to the nearest whole number, a half
\* to the even one
Round(p, q) ==
    LET floor == p \div q
        twice == 2 * (p % q)
    IN  CASE twice < q -> floor
          [] twice > q -> floor + 1
          [] OTHER -> IF floor % 2 = 0 THEN floor ELSE floor + 1

Min(a, b) == IF a < b THEN a ELSE b

\* end_index of the task of an index (0-based) over n paths
EndIndex(index, n, process_count) ==
    Min(Round((index + 1) * n, process_count) + 1, n)

\* file_paths[previous_index:end_index] of each task, previous_index being
\* the end_index of the task before it
Slices(file_paths, process_count) ==
    [k \in 1..process_count |->
        SubSeq(file_paths,
               (IF k = 1 THEN 0 ELSE EndIndex(k - 2, Len(file_paths), process_count)) + 1,
               EndIndex(k - 1, Len(file_paths), process_count))]

\* the i-th path of a call: a .wfm file, or a .kkw file where the call is to fail
PathOf(i, bad) ==
    IF i = bad THEN <<96 + i, 46, 107, 107, 119>> ELSE <<96 + i, 46, 119, 102, 109>>

\* the .wfm paths among the paths
Readable(file_paths) == {file_paths[i] : i \in {j \in DOMAIN file_paths :
                              ~Failed(FileExtensionOf(splitext(file_paths[j])[2]))}}

InitParallel ==
    /\ w = <<>>
    /\ ret = [op |-> "init"]
    /\ hist = "none"
    /\ fmt = None
    /\ fd = None

\* the driver up to its first result.get(): the pool of process_count
\* processes and one apply_async per process, result left bound to the last.
\* A directory read from holds the .wfm files; one written to is empty.
SubmitTasks ==
    /\ hist = "none"
    /\ \E op \in {"write_files_in_parallel", "read_files_in_parallel"},
          n \in 1..MaxFiles, force_process_count \in 1..MaxProcesses :
          \E bad \in 0..n :
          \E file_paths \in {[i \in 1..n |-> PathOf(i, bad)]},
             process_count \in {Min(force_process_count, n)} :
              /\ fmt' = [op |-> op, file_paths |-> file_paths,
                         process_count |-> process_count, result |-> process_count]
              /\ w' = [k \in 1..process_count |->
                          [file_paths |-> Slices(file_paths, process_count)[k],
                           done |-> 0, state |-> "queued"]]
              /\ fd' = [disk |-> IF op = "read_files_in_parallel"
                                 THEN Readable(file_paths) ELSE {},
                        queue |-> <<>>]
    /\ hist' = "pool"
    /\ ret' = [op |-> "apply_async"]

\* write_file or read_file of a path raises
FileCallRaises(op, path, disk) ==
    \/ Failed(FileExtensionOf(splitext(path)[2]))
    \/ op = "read_files_in_parallel" /\ path \notin disk

\* a process of the pool runs one step of the task k, taken off the task queue
\* after the tasks before it: _write_files writes its next file, _read_files
\* puts its next (path, waveform) on the queue; the call that raises ends the
\* task with the exception, the end of the loop with its return
RunTask(k) ==
    /\ hist = "pool"
    /\ k \in DOMAIN w
    /\ w[k].state \in {"queued", "running"}
    /\ k > 1 => w[k - 1].state # "queued"
    /\ IF w[k].done = Len(w[k].file_paths)
       THEN /\ w' = [w EXCEPT ![k].state = "done"]
            /\ UNCHANGED fd
       ELSE \E file_path \in {w[k].file_paths[w[k].done + 1]} :
              IF FileCallRaises(fmt.op, file_path, fd.disk)
              THEN /\ w' = [w EXCEPT ![k].state = "raised"]
                   /\ UNCHANGED fd
              ELSE /\ w' = [w EXCEPT ![k].state = "running", ![k].done = @ + 1]
                   /\ fd' = IF fmt.op = "write_files_in_parallel"
                            THEN [fd EXCEPT !.disk = @ \cup {file_path}]
                            ELSE [fd EXCEPT !.queue = Append(@, <<file_path, "waveform">>)]
    /\ UNCHANGED <<ret, hist, fmt>>

\* Pool.__exit__: terminate() stops the processes without completing the
\* outstanding tasks
Terminated(tasks) ==
    [k \in DOMAIN tasks |->
        IF tasks[k].state \in {"queued", "running"}
        THEN [tasks[k] EXCEPT !.state = "terminated"] ELSE tasks[k]]

\* the loop of result.get() once the task result is bound to has ended: its
\* exception raised as ChildProcessError, or process_count returns; then the
\* pool is left, and read_files_in_parallel drains the queue into its list
GetResults ==
    /\ hist = "pool"
    /\ w[fmt.result].state \in {"done", "raised"}
    /\ ret' = IF w[fmt.result].state = "raised"
              THEN [op |-> fmt.op, err |-> "ChildProcessError", out |-> <<>>]
              ELSE [op |-> fmt.op, err |-> "",
                    out |-> IF fmt.op = "read_files_in_parallel" THEN fd.queue ELSE <<>>]
    /\ w' = Terminated(w)
    /\ hist' = "returned"
    /\ UNCHANGED <<fmt, fd>>

NextParallel ==
    \/ SubmitTasks
    \/ \E k \in 1..MaxProcesses : RunTask(k)
    \/ GetResults

SpecParallel == InitParallel /\ [][NextParallel]_vars

\* C13: when a worker of write_files_in_parallel or read_files_in_parallel
\* has raised, the driver raises ChildProcessError, whichever worker it is
\* and however the workers and the driver interleave.
C13_WorkerFailureIsChildProcessError ==
    (hist = "returned" /\ \E k \in DOMAIN w : w[k].state = "raised") =>
        ret.err = "ChildProcessError"

\* it does when the worker that raised is the last one submitted
C13_LastWorkerFailureIsRaised ==
    (hist = "returned" /\ w[fmt.result].state = "raised") =>
        ret.err = "ChildProcessError"

\* the paths of the entries of a list of (path, waveform)
EntryPaths(entries) == [i \in DOMAIN entries |-> entries[i][1]]

\* C14: for a non-empty list of readable paths and force_process_count >= 1,
\* read_files_in_parallel returns one (path, waveform) entry for each path,
\* none missing and none twice, and write_files_in_parallel has written every
\* file when it returns normally.
C14_EveryFileOnce ==
    (hist = "returned" /\ ret.err = ""
        /\ Readable(fmt.file_paths) = {fmt.file_paths[i] : i \in DOMAIN fmt.file_paths}) =>
        /\ fmt.op = "read_files_in_parallel" =>
              /\ Len(ret.out) = Len(fmt.file_paths)
              /\ \A i \in DOMAIN fmt.file_paths :
                    Cardinality({j \in DOMAIN ret.out :
                                    EntryPaths(ret.out)[j] = fmt.file_paths[i]}) = 1
        /\ fmt.op = "write_files_in_parallel" =>
              \A i \in DOMAIN fmt.file_paths : fmt.file_paths[i] \in fd.disk

\* a single process does read or write every file
C14_SingleProcessEveryFileOnce ==
    (hist = "returned" /\ ret.err = "" /\ fmt.process_count = 1
        /\ Readable(fmt.file_paths) = {fmt.file_paths[i] : i \in DOMAIN fmt.file_paths}) =>
        /\ fmt.op = "read_files_in_parallel" =>
              EntryPaths(ret.out) = fmt.file_paths
        /\ fmt.op = "write_files_in_parallel" =>
              \A i \in DOMAIN fmt.file_paths : fmt.file_paths[i] \in fd.disk

----------------------------------------------------------------------------
(* Buffers of the sample arrays (datum/data_types.py): a MeasuredData is   *)
(* built on the buffer of the array _convert_data_to_type returns.  fd is  *)
(* the memory, a sequence of buffers; an array is [cls, dtype, buf], buf   *)
(* the index of its buffer.  w is the source waveform, ret the waveform a  *)
(* transform returned, fmt the samples the source was given.  The floats   *)
(* of the waveform returned are exact rationals.                           *)

\* the element types of the sources and the targets of the transforms
BufferDTypes == {"i1", "u1", "i2"}

InitBuffers ==
    /\ w = AnalogWaveform
    /\ ret = [op |-> "init"]
    /\ hist = "new"
    /\ fmt = None
    /\ fd = <<>>

\* waveform.y_axis_values = RawSample(ndarray) or Normalized(ndarray, spacing,
\* offset) of two samples, with the spacing and the offset of the waveform
AssignSource ==
    /\ hist = "new"
    /\ \E dtype \in BufferDTypes, cls \in {"RawSample", "Normalized"},
          spacing \in Spacings, offset \in Offsets :
          \E values \in {IF cls = "RawSample" THEN RawSample(Samples(dtype, 2))
                         ELSE Normalized(RawSample(Samples(dtype, 2)), spacing, offset).val} :
              /\ fd' = <<values.data>>
              /\ fmt' = values.data
              /\ w' = Setattr(Setattr(Setattr(w, "y_axis_spacing", spacing),
                                      "y_axis_offset", offset),
                              "y_axis_values",
                              [cls |-> cls, dtype |-> values.dtype, buf |-> 1])
    /\ hist' = "ready"
    /\ ret' = [op |-> "assign"]

\* out = waveform.transform_to_type(as_type), to a signed type from Normalized
TransformToType ==
    /\ hist = "ready"
    /\ \E as_type \in BufferDTypes :
          /\ w.y_axis_values.cls = "Normalized" => as_type \notin UnsignedDTypes
          /\ \E call \in {transform_to_type(w, as_type, fd)} :
                /\ fd' = call.heap
                /\ ret' = [op |-> "transform_to_type", out |-> call.out]
    /\ hist' = "transformed"
    /\ UNCHANGED <<w, fmt>>

\* out = waveform.transform_to_normalized()
TransformToNormalized ==
    /\ hist = "ready"
    /\ \E call \in {transform_to_normalized(w, fd)} :
          /\ fd' = call.heap
          /\ ret' = [op |-> "transform_to_normalized", out |-> call.out]
    /\ hist' = "transformed"
    /\ UNCHANGED <<w, fmt>>

\* out.y_axis_values[0] = 0: the item assignment of ndarray, in the buffer
AssignItem ==
    /\ hist = "transformed"
    /\ fd' = [fd EXCEPT ![ret.out.y_axis_values.buf][1] = 0]
    /\ hist' = "assigned"
    /\ UNCHANGED <<w, ret, fmt>>

NextBuffers ==
    \/ AssignSource
    \/ TransformToType
    \/ TransformToNormalized
    \/ AssignItem

SpecBuffers == InitBuffers /\ [][NextBuffers]_vars

\* C15: the sample buffer of the waveform transform_to_type or
\* transform_to_normalized returned is not the buffer of the source, for a
\* RawSample and a Normalized source and every target type, the element type
\* of the source included; so the samples of the source stay as given when an
\* item of the result is assigned.
C15_ResultOwnsItsBuffer ==
    (hist \in {"transformed", "assigned"}) =>
        /\ ret.out.y_axis_values.buf # w.y_axis_values.buf
        /\ fd[w.y_axis_values.buf] = fmt

\* it is not when the transform changes the class or the element type
C15_ConvertedOwnsItsBuffer ==
    (hist \in {"transformed", "assigned"}
        /\ \/ ret.out.y_axis_values.cls # w.y_axis_values.cls
           \/ ret.out.y_axis_values.dtype # w.y_axis_values.dtype) =>
        /\ ret.out.y_axis_values.buf # w.y_axis_values.buf
        /\ fd[w.y_axis_values.buf] = fmt

----------------------------------------------------------------------------
(* Normalized conversions in two threads (datum/data_types.py 381-488).    *)
(* Normalized.__new__ leaves the spacing and the offset of the call in the *)
(* class variables _spacing and _offset, and                               *)
(* _raw_sample_format_to_this_format reads them back.  fd holds the class  *)
(* variables, w the two threads, each at a position of its call.           *)

\* a thread about to call Normalized(measured_data, spacing, offset)
ThreadOf(measured_data, spacing, offset) ==
    [pc |-> "call", measured_data |-> measured_data, spacing |-> spacing,
     offset |-> offset, data |-> <<>>]

InitThreads ==
    /\ w = <<>>
    /\ ret = [op |-> "init"]
    /\ hist = "new"
    /\ fmt = None
    /\ fd = [_spacing |-> None, _offset |-> None]

\* two threads are started, each to convert RawSample values of its own with
\* a spacing and an offset of its own
StartThreads ==
    /\ hist = "new"
    /\ \E n \in 1..MaxLen, s1 \in Spacings, s2 \in Spacings,
          o1 \in Offsets, o2 \in Offsets :
          w' = <<ThreadOf(RawSample(Samples("i2", n)), s1, o1),
                 ThreadOf(RawSample(Samples("i2", n)), s2, o2)>>
    /\ hist' = "threads"
    /\ ret' = [op |-> "start"]
    /\ UNCHANGED <<fmt, fd>>

\* Normalized.__new__: cls._spacing = spacing
StoreSpacing(t) ==
    /\ hist = "threads"
    /\ w[t].pc = "call"
    /\ fd' = [fd EXCEPT !._spacing = Some(w[t].spacing)]
    /\ w' = [w EXCEPT ![t].pc = "spacing_stored"]
    /\ UNCHANGED <<ret, hist, fmt>>

\* Normalized.__new__: cls._offset = offset
StoreOffset(t) ==
    /\ hist = "threads"
    /\ w[t].pc = "spacing_stored"
    /\ fd' = [fd EXCEPT !._offset = Some(w[t].offset)]
    /\ w' = [w EXCEPT ![t].pc = "offset_stored"]
    /\ UNCHANGED <<ret, hist, fmt>>

\* _raw_sample_format_to_this_format: raw_sample_data.copy() * cls._spacing
Scale(t) ==
    /\ hist = "threads"
    /\ w[t].pc = "offset_stored"
    /\ w' = [w EXCEPT ![t].pc = "scaled",
                      ![t].data = [i \in DOMAIN w[t].measured_data.data |->
                                      w[t].measured_data.data[i] * The(fd._spacing)]]
    /\ UNCHANGED <<ret, hist, fmt, fd>>

\* _raw_sample_format_to_this_format: ... + cls._offset, the array returned
Shift(t) ==
    /\ hist = "threads"
    /\ w[t].pc = "scaled"
    /\ w' = [w EXCEPT ![t].pc = "returned",
                      ![t].data = [i \in DOMAIN w[t].data |->
                                      w[t].data[i] + The(fd._offset)]]
    /\ UNCHANGED <<ret, hist, fmt, fd>>

NextThreads ==
    \/ StartThreads
    \/ \E t \in 1..2 : StoreSpacing(t)
    \/ \E t \in 1..2 : StoreOffset(t)
    \/ \E t \in 1..2 : Scale(t)
    \/ \E t \in 1..2 : Shift(t)

SpecThreads == InitThreads /\ [][NextThreads]_vars

\* the Normalized values of a thread are those of its own spacing and offset
OwnNormalized(thread) ==
    thread.data = Normalized(thread.measured_data, thread.spacing, thread.offset).val.data

\* C16: of two concurrent Normalized conversions with different (spacing,
\* offset), each returns x * spacing + offset with its own spacing and offset.
C16_ConcurrentConversionsOwnParameters ==
    \A t \in DOMAIN w : w[t].pc = "returned" => OwnNormalized(w[t])

\* they do when the two calls are given the same spacing and offset
C16_SameParameters ==
    \A t \in DOMAIN w :
        (w[t].pc = "returned" /\ w[1].spacing = w[2].spacing
                              /\ w[1].offset = w[2].offset) => OwnNormalized(w[t])

----------------------------------------------------------------------------
(* The waveform handed to a write (wfm.py 154-197 and the codecs'          *)
(* _waveform_vertical_values_to_format).  w is the caller's waveform, of   *)
(* samples the codec writes as they are or converts first.                 *)

\* Normalized values whose range is that of the 16-bit type: -32768.0, 32767.0
FullRangeNormalized ==
    [cls |-> "Normalized", dtype |-> "f8", data |-> <<FxInt(0 - 32768), FxInt(32767)>>]

\* the sample arrays a caller assigns to a waveform of a kind: RawSample of
\* each element type, and for an analog waveform Normalized values
SampleArrays(kind) ==
    {RawSample(Samples(dtype, IF kind = "iq" THEN 2 * n ELSE n)) :
        dtype \in CurveDTypes(kind), n \in 1..MaxLen}
    \cup (IF kind = "analog" THEN {FullRangeNormalized} ELSE {})

\* the caller sets the samples, the trigger index and the meta info
SetUpSamples ==
    /\ hist = "new"
    /\ \E samples \in SampleArrays(w.kind), trigger_index \in {None, Some(FxInt(1) + 1)},
          m \in 1..2 :
            w' = NewWaveform(w.kind, samples, FxInt(1), 0, UnitV, trigger_index,
                             MetaInfoInputs(w.kind)[m])
    /\ hist' = "ready"
    /\ ret' = [op |-> "set_up"]
    /\ UNCHANGED <<fmt, fd>>

NextWrites ==
    \/ SetUpSamples
    \/ WriteDatum
    \/ WriteFile

SpecWrites == InitRoundTrip /\ [][NextWrites]_vars

\* the attributes of a waveform other than its two cached properties
Attributes(waveform) ==
    [f \in DOMAIN waveform \ {"normalized_vertical_values", "normalized_horizontal_values"}
        |-> waveform[f]]

C17_Raised ==
    /\ hist \in {"written", "file_written"}
    /\ ret.err # ""

----------------------------------------------------------------------------
(* The setup helpers of the assembler called one after another             *)
(* (wfm_format.py 399-851).  fmt is the assembler, holding a curve buffer  *)
(* of two samples and either nothing else or every section at its          *)
(* defaults; ret names the last call, the assembler before it, and whether *)
(* the call before it was the same call; hist counts the calls.            *)

\* the longest run of calls followed
MaxCalls == 3

SetupHelpers ==
    {"setup_file_info", "setup_header", "setup_pixel_map", "setup_explicit_dimensions",
     "setup_implicit_dimensions", "setup_explicit_user_view", "setup_implicit_user_view",
     "setup_time_base_info", "setup_update_specifications", "setup_curve_information"}

\* the helpers that fill a slot of a Dimension through _replace_dimension
DimensionHelpers ==
    {"setup_explicit_dimensions", "setup_implicit_dimensions", "setup_explicit_user_view",
     "setup_implicit_user_view", "setup_time_base_info"}

\* a call of a helper, scale being the one argument that varies: the scale,
\* the real_point_spacing or, for setup_header, the data_type
CallSetupHelper(name, self, scale) ==
    CASE name = "setup_file_info" -> setup_file_info(self)
      [] name = "setup_header" -> setup_header(self, IF scale = 1 THEN VECTOR ELSE DIGITAL)
      [] name = "setup_pixel_map" -> setup_pixel_map(self)
      [] name = "setup_explicit_dimensions" ->
           setup_explicit_dimensions(self, [ExplicitArgs EXCEPT !.scale = FxInt(scale)])
      [] name = "setup_implicit_dimensions" ->
           setup_implicit_dimensions(self, [ImplicitArgs EXCEPT !.scale = FxInt(scale)])
      [] name = "setup_explicit_user_view" ->
           setup_explicit_user_view(self, VersionTHREE,
                                    [UserViewArgs(UnitV) EXCEPT !.scale = FxInt(scale)])
      [] name = "setup_implicit_user_view" ->
           setup_implicit_user_view(self, VersionTHREE,
                                    [UserViewArgs(UnitS) EXCEPT !.scale = FxInt(scale)])
      [] name = "setup_time_base_info" ->
           setup_time_base_info(self, [TimeBaseArgs EXCEPT !.real_point_spacing = scale])
      [] name = "setup_update_specifications" -> setup_update_specifications(self)
      [] name = "setup_curve_information" -> setup_curve_information(self)

\* the helpers whose call takes the argument that varies
TakesScale(name) == name \in DimensionHelpers \cup {"setup_header"}

InitSetup ==
    /\ w = None
    /\ ret = [op |-> "init", scale |-> 0, err |-> "", before |-> None, again |-> FALSE]
    /\ hist = 0
    /\ \E buffered \in {SetAttr(WfmFormat, "curve_buffer", RawSample(Samples("i2", 2)))} :
          fmt \in {buffered, setup_wfm_format(buffered, VersionTHREE).val}
    /\ fd = None

\* formatted_data.setup_...(...): the assembler as the helper leaves it, or
\* as it was when the helper raises
SetupHelper ==
    /\ hist < MaxCalls
    /\ \E name \in SetupHelpers, scale \in 1..2 :
          /\ ~TakesScale(name) => scale = 1
          /\ \E call \in {CallSetupHelper(name, fmt, scale)} :
                /\ fmt' = IF Failed(call) THEN fmt ELSE call.val
                /\ ret' = [op |-> name, scale |-> scale, err |-> call.err, before |-> fmt,
                           again |-> ret.op = name /\ ret.scale = scale /\ ret.err = ""]
    /\ hist' = hist + 1
    /\ UNCHANGED <<w, fd>>

NextSetup == SetupHelper

SpecSetup == InitSetup /\ [][NextSetup]_vars

\* C18: a setup helper called twice in a row with the same arguments leaves
\* the assembler as the first of the two calls left it.
C18_SetupHelpersIdempotent ==
    (ret.again /\ ret.err = "") => fmt = ret.before

\* the helpers that do not go through _replace_dimension are idempotent
C18_RecordHelpersIdempotent ==
    (ret.again /\ ret.err = "" /\ ret.op \notin DimensionHelpers) => fmt = ret.before

\* ------------------------------------------------------------------------
\* An assembler filled by its caller, packed and unpacked again.  fmt is the
\* WfmFormat object, fd the product profile and the bytes of the file, ret
\* the last call with the assembler it was made on.

\* the dtypes of the curve buffer of the assembler
AssemblerDTypes == {"i1", "i2"}

\* a WfmFormat with a curve buffer of two samples whose explicit dimension
\* names the format of the buffer, the other sections at their defaults
SetUpAssembler(dtype, version_number) ==
    setup_wfm_format(
        setup_explicit_dimensions(
            SetAttr(WfmFormat, "curve_buffer", RawSample(NdArray(dtype, <<1, 2>>))),
            [ExplicitArgs EXCEPT !.curve_format = CurveFormat(dtype)]).val,
        version_number).val

\* the versions with a summary frame type: under Version ONE setup_file_info
\* goes on to bool(curve_buffer), which raises for two samples
AssemblerVersions == {VersionTWO, VersionTHREE}

InitAssembler ==
    /\ w = None
    /\ ret = [op |-> "init", err |-> "", before |-> None]
    /\ hist = "new"
    /\ \E dtype \in AssemblerDTypes, version_number \in AssemblerVersions,
          format \in {INTEL, PPC} :
          /\ fmt = SetUpAssembler(dtype, version_number)
          /\ fd = [format |-> format, version |-> version_number, bytes |-> <<>>]

\* the attributes a caller assigns to
AssemblerAssignments ==
    {"update_specs", "curve_specs", "num_acquired_fast_frames", "update_spec_cnt", "format"}

\* the assembler after one assignment of the caller: a list of one frame, a
\* header count of one frame, or the format code of the other element size
AssignedTo(self, name) ==
    CASE name = "update_specs" ->
            SetAttr(self, "update_specs", <<The(self.update_specifications)>>)
      [] name = "curve_specs" -> SetAttr(self, "curve_specs", <<The(self.curve_info)>>)
      [] name = "num_acquired_fast_frames" ->
            [self EXCEPT !.header = Some([The(@) EXCEPT !.num_acquired_fast_frames = 1])]
      [] name = "update_spec_cnt" ->
            [self EXCEPT !.header = Some([The(@) EXCEPT !.update_spec_cnt = 2])]
      [] name = "format" ->
            [self EXCEPT !.explicit_dimensions =
                Some([The(@) EXCEPT !.first.format =
                         IF @ = CurveFormat("i2") THEN CurveFormat("i1")
                         ELSE CurveFormat("i2")])]

\* formatted_data.<name> = ...
AssignAttribute ==
    /\ hist = "new"
    /\ \E name \in AssemblerAssignments :
          /\ AssignedTo(fmt, name) # fmt
          /\ fmt' = AssignedTo(fmt, name)
          /\ ret' = [op |-> name, err |-> "", before |-> fmt]
    /\ UNCHANGED <<w, hist, fd>>

\* formatted_data.pack_wfm_file(endian, version_number, filestream) on a
\* new file
PackWfmFile ==
    /\ hist = "new"
    /\ \E packed \in {pack_wfm_file(fmt, EndianPrefix(fd.format), fd.version)} :
          /\ fmt' = packed.self
          /\ fd' = [fd EXCEPT !.bytes = packed.bytes]
          /\ ret' = [op |-> "pack_wfm_file", err |-> packed.err, before |-> fmt]
    /\ hist' = "packed"
    /\ UNCHANGED w

\* WfmFormat().unpack_wfm_file(endian, version_number, filestream) on the
\* file pack_wfm_file wrote, the stream past the preamble
UnpackWfmFile ==
    /\ hist = "packed"
    /\ ret.err = ""
    /\ ret' = [op |-> "unpack_wfm_file", err |-> "", before |-> ret.before,
               out |-> unpack_wfm_file(WfmFormat, EndianPrefix(fd.format), fd.version,
                                       fd.bytes, 10)]
    /\ hist' = "unpacked"
    /\ UNCHANGED <<w, fmt, fd>>

NextAssembler ==
    \/ AssignAttribute
    \/ PackWfmFile
    \/ UnpackWfmFile

SpecAssembler == InitAssembler /\ [][NextAssembler]_vars

\* the invariants of the assembler state the examples of the contract name:
\* the element size of the format code is bytes_per_point and the element
\* size of the curve buffer, the two frame lists are equally long, and the
\* header counts agree with them
InvariantsHold(self) ==
    /\ ItemSize(CurveDType(The(self.explicit_dimensions).first.format))
          = The(self.file_info).bytes_per_point
    /\ ItemSize(CurveDType(The(self.explicit_dimensions).first.format))
          = ItemSize(self.curve_buffer.dtype)
    /\ Len(self.update_specs) = Len(self.curve_specs)
    /\ The(self.header).update_spec_cnt = Len(self.update_specs) + 1
    /\ The(self.header).num_acquired_fast_frames = Len(self.update_specs)
    /\ The(self.file_info).number_of_frames
          = (IF Len(self.curve_specs) > 1 THEN Len(self.curve_specs) - 1 ELSE 0)

\* the fields that hold a String: a record packs them padded with NUL to
\* the class length, and unpacks them without the padding
StringFields == {"units", "waveform_label"}

RECURSIVE WithoutPadding(_)
\* the text of a String field without its trailing NUL bytes
WithoutPadding(b) ==
    IF b # <<>> /\ b[Len(b)] = 0 THEN WithoutPadding(SubSeq(b, 1, Len(b) - 1)) ELSE b

\* the records hold the same field values
SameRecord(a, b) ==
    \A f \in DOMAIN a :
        IF f \in StringFields THEN WithoutPadding(a[f]) = WithoutPadding(b[f])
        ELSE a[f] = b[f]

\* unpack_wfm_file returned an assembler with the records, lists and buffers
\* of the assembler that was packed (an empty buffer has the dtype of the
\* curve in the file, whatever dtype it had in the assembler)
ReadsBack(out, packed) ==
    /\ ~Failed(out)
    /\ \A i \in 1..Len(RecordAttrs) :
          SameRecord(The(out.val[RecordAttrs[i][1]]), The(packed[RecordAttrs[i][1]]))
    /\ \A i \in 1..Len(DimensionAttrs) :
          /\ SameRecord(The(out.val[DimensionAttrs[i]]).first,
                        The(packed[DimensionAttrs[i]]).first)
          /\ SameRecord(The(The(out.val[DimensionAttrs[i]]).second),
                        The(The(packed[DimensionAttrs[i]]).second))
    /\ out.val.update_specs = packed.update_specs
    /\ out.val.curve_specs = packed.curve_specs
    /\ out.val.file_checksum = packed.file_checksum
    /\ out.val.meta_data = packed.meta_data
    /\ \A i \in 1..3 :
          /\ out.val[BufferAttrs[i]].data = packed[BufferAttrs[i]].data
          /\ packed[BufferAttrs[i]].data # <<>> =>
                out.val[BufferAttrs[i]].dtype = packed[BufferAttrs[i]].dtype

\* C19: pack_wfm_file raises on an assembler whose state breaks one of the
\* invariants (frame lists of different lengths, a header count that
\* disagrees with the lists, a format code of another element size than the
\* curve buffer), and every file it emits is read back by unpack_wfm_file
\* into the same records and buffers.
C19_PackRefusesViolations ==
    /\ (ret.op = "pack_wfm_file" /\ ~InvariantsHold(ret.before)) => ret.err # ""
    /\ ret.op = "unpack_wfm_file" => ReadsBack(ret.out, fmt)

\* the file of an assembler whose state keeps the invariants is read back
\* into the same records and buffers
C19_ConsistentReadsBack ==
    (ret.op = "unpack_wfm_file" /\ InvariantsHold(ret.before)) => ReadsBack(ret.out, fmt)

\* ------------------------------------------------------------------------
\* Waveforms without samples through a .wfm file.

\* the lengths of the sample arrays written: none, or one sample (one pair of
\* an IQ array)
ShortLengths(kind) == IF kind = "iq" THEN {0, 2} ELSE {0, 1}

\* a waveform of the kind whose sample array is a RawSample of a short length
SetUpShort ==
    /\ hist = "new"
    /\ \E dtype \in CurveDTypes(w.kind), n \in ShortLengths(w.kind),
          trigger_index \in {None, Some(0)} :
            w' = NewWaveform(w.kind, Samples(dtype, n), FxInt(1), 0, UnitV,
                             trigger_index, None)
    /\ hist' = "ready"
    /\ ret' = [op |-> "set_up"]
    /\ UNCHANGED <<fmt, fd>>

NextShort ==
    \/ SetUpShort
    \/ WriteDatum
    \/ ReadDatum
    \/ WriteFile
    \/ ReadFile

SpecShort == InitRoundTrip /\ [][NextShort]_vars

\* the waveform written holds no sample
WroteEmpty == hist \notin {"new", "ready"} /\ record_length(w) = 0

\* C20: writing a waveform whose sample array is an empty RawSample as WFM
\* succeeds, and reading the file back gives a waveform of record length 0.
C20_EmptyWaveformRoundTrips ==
    WroteEmpty =>
        /\ ret.op \in {"write_datum", "write_file"} => ret.err = ""
        /\ ret.op \in {"read_datum", "read_file"} =>
              ~Failed(ret.out) /\ record_length(ret.out.val) = 0

\* every write of a waveform without samples raises: setup_implicit_dimensions
\* refuses the empty curve buffer (a digital waveform without a trigger index
\* raises before that)
C20_EmptyWriteRaises ==
    (WroteEmpty /\ ret.op \in {"write_datum", "write_file"}) => ret.err # ""

----------------------------------------------------------------------------
(* Conversions of the element type of an analog waveform                   *)
(* (datum/data_types.py, datum/waveforms/analog_waveform.py).  As for the  *)
(* buffers: fd is the memory, w the source waveform, ret the waveform a    *)
(* transform returned; the physical values are exact rationals.            *)

\* the longest sample array converted
MaxSamples == 3

\* sample values at the ends and the middle of the range of an element type
ProbeValues(dtype) ==
    LET mid == (type_max(dtype) + type_min(dtype) + 1) \div 2
    IN  {type_min(dtype), type_min(dtype) + 1, mid, type_max(dtype) - 1, type_max(dtype)}

\* the sample arrays of the sources: every array of probe values
ProbeArrays(dtype) ==
    UNION {[1..n -> ProbeValues(dtype)] : n \in 1..MaxSamples}

\* waveform.y_axis_values = RawSample(ndarray), with the spacing and the
\* offset of the waveform
AssignRawSample ==
    /\ hist = "new"
    /\ \E dtype \in BufferDTypes, spacing \in Spacings, offset \in Offsets :
          \E data \in ProbeArrays(dtype) :
              /\ fd' = <<data>>
              /\ fmt' = data
              /\ w' = Setattr(Setattr(Setattr(w, "y_axis_spacing", spacing),
                                      "y_axis_offset", offset),
                              "y_axis_values",
                              [cls |-> "RawSample", dtype |-> dtype, buf |-> 1])
    /\ hist' = "ready"
    /\ ret' = [op |-> "assign"]

\* back = out.transform_to_type(as_type) on the waveform
\* transform_to_normalized returned, to a signed type; the source one of
\* 8-bit samples (the exact physical values of 16-bit samples taken back to
\* 16 bits have numerators beyond the whole numbers of the model)
TransformBack ==
    /\ hist = "transformed"
    /\ ret.op = "transform_to_normalized"
    /\ ItemSize(w.y_axis_values.dtype) = 1
    /\ \E as_type \in BufferDTypes \ UnsignedDTypes :
          \E call \in {transform_to_type(
                          [ret.out EXCEPT !.y_axis_spacing = QToFx(@),
                                          !.y_axis_offset = QToFx(@)],
                          as_type, fd)},
             cast \in NaNCasts(as_type) :
                /\ fd' = [call.heap EXCEPT ![call.out.y_axis_values.buf] =
                                                DrawNaNCast(@, cast)]
                /\ ret' = [op |-> "transform_back", via |-> ret.out, out |-> call.out]
    /\ hist' = "back"
    /\ UNCHANGED <<w, fmt>>

NextConvert ==
    \/ AssignRawSample
    \/ TransformToType
    \/ TransformToNormalized
    \/ TransformBack

SpecConvert == InitBuffers /\ [][NextConvert]_vars

\* normalized_vertical_values of a waveform in memory whose spacing and
\* offset are the rationals given: the samples of a RawSample times the
\* spacing plus the offset, those of a Normalized as they are
PhysicalValues(heap, waveform, spacing, offset) ==
    [i \in DOMAIN heap[waveform.y_axis_values.buf] |->
        IF waveform.y_axis_values.cls = "RawSample"
        THEN QAdd(QMul(QOfInt(heap[waveform.y_axis_values.buf][i]), spacing), offset)
        ELSE QOfFx(heap[waveform.y_axis_values.buf][i])]

\* the physical values of the source and of the waveform returned
Before == PhysicalValues(fd, w, QOfFx(w.y_axis_spacing), QOfFx(w.y_axis_offset))
After == PhysicalValues(fd, ret.out, ret.out.y_axis_spacing, ret.out.y_axis_offset)

\* every sample of the two sequences of physical values differs by at most
\* the tolerance
Within(before, after, tolerance) ==
    /\ DOMAIN before = DOMAIN after
    /\ \A i \in DOMAIN before : QLeq(QAbs(QSub(after[i], before[i])), tolerance)

\* the transform was between a signed and an unsigned integer type
ChangedSign ==
    /\ hist = "transformed"
    /\ ret.op = "transform_to_type"
    /\ (w.y_axis_values.dtype \in UnsignedDTypes)
          # (ret.out.y_axis_values.dtype \in UnsignedDTypes)

\* C21: transform_to_type between a signed and an unsigned integer element
\* type keeps the physical value of every sample within 0.0015.
C21_SignChangeKeepsPhysicalValue ==
    ChangedSign => Within(Before, After, <<3, 2000>>)

\* the shift of the physical values the change of sign makes: the samples
\* move by the least value of the signed type, the offset stays
SignShift ==
    IF ret.out.y_axis_values.dtype \in UnsignedDTypes
    THEN QMul(QOfInt(0 - type_min(w.y_axis_values.dtype)), QOfFx(w.y_axis_spacing))
    ELSE QMul(QOfInt(type_min(ret.out.y_axis_values.dtype)), ret.out.y_axis_spacing)

\* the physical values move by that shift, within one step of the new type
C21_SignChangeShiftsPhysicalValue ==
    ChangedSign =>
        Within([i \in DOMAIN Before |-> QAdd(Before[i], SignShift)], After,
               ret.out.y_axis_spacing)

\* the mean of the samples is the midpoint of their minimum and maximum
MeanIsMidpoint(data) ==
    QNorm(SumFromTo(data, 1, Len(data)), 2 * Len(data))
        = QDiv(QOfFx(SeqMaximum(data) + SeqMinimum(data)), QOfInt(2))

\* C28: w.transform_to_normalized().transform_to_type(T) has the physical
\* values of w within one quantization step of T, whatever the samples:
\* also when their mean is not the midpoint of their minimum and maximum,
\* and when they are all equal.
C28_NormalizedRecovers ==
    hist = "back" => Within(Before, After, ret.out.y_axis_spacing)

\* it has when the mean of the normalized samples is their midpoint
C28_CenteredRecovers ==
    (hist = "back" /\ MeanIsMidpoint(fd[ret.via.y_axis_values.buf])) =>
        Within(Before, After, ret.out.y_axis_spacing)

----------------------------------------------------------------------------
(* The summary frame type of the three versions (wfm_format.py): an        *)
(* assembler that holds only its curve buffer is packed, _setup_wfm_format *)
(* filling in the rest, and the file is unpacked.                          *)

\* the curve buffers packed: two samples, one sample, one sample that is 0
VersionBuffers(dtype) ==
    {NdArray(dtype, <<1, 2>>), NdArray(dtype, <<1>>), NdArray(dtype, <<0>>)}

InitVersions ==
    /\ w = None
    /\ ret = [op |-> "init", err |-> "", before |-> None]
    /\ hist = "new"
    /\ \E dtype \in BufferDTypes, version_number \in Versions, format \in {INTEL, PPC} :
          \E buffer \in VersionBuffers(dtype) :
              /\ fmt = SetAttr(WfmFormat, "curve_buffer", RawSample(buffer))
              /\ fd = [format |-> format, version |-> version_number, bytes |-> <<>>]

NextVersions ==
    \/ PackWfmFile
    \/ UnpackWfmFile

SpecVersions == InitVersions /\ [][NextVersions]_vars

\* the bytes of a summary frame type in a file of the version
SummaryFrameBytes(version_number) ==
    IF version_number = VersionONE THEN 0 ELSE ByteType("UnsignedShort").length

\* the file holds the header, then the summary frame type when the version
\* has one, then the pixmap and the first explicit dimension
SummaryFrameLayout(self, bytes, endian, version_number) ==
    LET header == 10 + get_cls_length("WaveformStaticFileInfo")
        summary == header + get_cls_length("WaveformHeader")
        pixmap == summary + SummaryFrameBytes(version_number)
        explicit == pixmap + get_cls_length("PixMap")
    IN  /\ SubSeq(bytes, header + 1, summary)
              = PackRecord(endian.struct, "WaveformHeader", The(self.header))
        /\ version_number # VersionONE =>
              /\ self.summary_frame_type # None
              /\ SubSeq(bytes, summary + 1, pixmap)
                    = Pack(endian.struct, "UnsignedShort", The(self.summary_frame_type))
        /\ SubSeq(bytes, pixmap + 1, explicit)
              = PackRecord(endian.struct, "PixMap", The(self.pixel_map))
        /\ SubSeq(bytes, explicit + 1, explicit + get_cls_length("ExplicitDimensions"))
              = PackRecord(endian.struct, "ExplicitDimensions",
                           The(self.explicit_dimensions).first)
        /\ The(self.file_info).header_size
              = get_cls_length("WaveformHeader") + get_cls_length("PixMap")
                + SummaryFrameBytes(version_number)

\* C22: for each of the three versions pack_wfm_file succeeds and writes the
\* two bytes of the summary frame type between the header and the pixmap
\* exactly when the version is not ONE, header_size counting them exactly
\* then, and unpack_wfm_file reads the file the same way.
C22_SummaryFrameTypeUnlessVersionOne ==
    /\ ret.op = "pack_wfm_file" =>
          /\ ret.err = ""
          /\ SummaryFrameLayout(fmt, fd.bytes, EndianPrefix(fd.format), fd.version)
    /\ ret.op = "unpack_wfm_file" =>
          /\ ~Failed(ret.out)
          /\ (ret.out.val.summary_frame_type = None) <=> (fd.version = VersionONE)
          /\ ret.out.val.summary_frame_type = fmt.summary_frame_type
          /\ SameRecord(The(ret.out.val.header), The(fmt.header))
          /\ SameRecord(The(ret.out.val.pixel_map), The(fmt.pixel_map))
          /\ SameRecord(The(ret.out.val.explicit_dimensions).first,
                        The(fmt.explicit_dimensions).first)

\* so it is for the versions TWO and THREE
C22_SummaryFrameTypeOfLaterVersions ==
    fd.version # VersionONE => C22_SummaryFrameTypeUnlessVersionOne

\* pack_wfm_file never returns for version ONE: setup_file_info raises
C22_VersionOneRaises ==
    (ret.op = "pack_wfm_file" /\ fd.version = VersionONE) => ret.err # ""

\* ---------------------------------------------------------------------
\* The byte order marker of a file
\* ---------------------------------------------------------------------

\* the two bytes a file may start with: the two markers of
\* _ENDIAN_PREFIX_LOOKUP and two the lookup does not have
Markers == {INTEL, PPC, <<0, 0>>, <<240, 15>>}

\* WFMFile.read_datum on the packed file, the two bytes it starts with
\* replaced by a marker
ReadMarked ==
    /\ hist = "packed"
    /\ ret.err = ""
    /\ \E marker \in Markers \ {fd.format} :
          ret' = [op |-> "read_datum", err |-> "", before |-> ret.before,
                  marker |-> marker,
                  out |-> read_datum("analog",
                                     marker \o SubSeq(fd.bytes, 3, Len(fd.bytes)))]
    /\ hist' = "read"
    /\ UNCHANGED <<w, fmt, fd>>

NextMarkers ==
    \/ PackWfmFile
    \/ UnpackWfmFile
    \/ ReadMarked

SpecMarkers == InitVersions /\ [][NextMarkers]_vars

\* the byte order the marker is said to name: little endian for F0 F0, big
\* endian for 0F 0F
NamedOrder(format) == IF format = INTEL THEN "<" ELSE ">"

\* the samples of a buffer laid out in a byte order
SamplesIn(endian, array) ==
    Concat([i \in 1..Len(array.data) |->
               Ordered(endian, IntBytesBE(array.data[i], ItemSize(array.dtype)))])

\* where the curve buffer starts in the file: after the marker, the version,
\* the records, the two lists and the precharge buffer
CurveStart(self, endian, version_number) ==
    LET sections == Sections(self, endian, version_number)
    IN  Len(Concat(SubSeq(sections, 1, Len(sections) - 2)))

\* the packed file holds the header, the first explicit dimension and the
\* curve samples, the records in one byte order and the samples in another
LaidOutIn(self, bytes, endian, version_number, records, samples) ==
    LET header == 10 + get_cls_length("WaveformStaticFileInfo")
        explicit == header + get_cls_length("WaveformHeader")
                    + SummaryFrameBytes(version_number) + get_cls_length("PixMap")
        curve == CurveStart(self, endian, version_number)
    IN  /\ SubSeq(bytes, header + 1, header + get_cls_length("WaveformHeader"))
              = PackRecord(records, "WaveformHeader", The(self.header))
        /\ SubSeq(bytes, explicit + 1, explicit + get_cls_length("ExplicitDimensions"))
              = PackRecord(records, "ExplicitDimensions",
                           The(self.explicit_dimensions).first)
        /\ SubSeq(bytes, curve + 1, curve + Len(ToFile(self.curve_buffer)))
              = SamplesIn(samples, self.curve_buffer)

\* a read of a file with a marker the lookup does not have fails with the
\* error of read_datum, raised before any record is unpacked
UnknownMarkerFails ==
    (hist = "read" /\ ret.marker \notin {INTEL, PPC})
        => ret.out = Raise("ValueError: Endian Format in wfm invalid.")

\* C23: the marker F0 F0 selects little endian and 0F 0F big endian for every
\* multi-byte value that follows: every record field and every sample of a
\* packed file is laid out in the byte order the marker names, and a read of
\* a file with an unrecognized marker fails before any record is parsed.
C23_MarkerNamesByteOrder ==
    /\ (hist = "packed" /\ ret.err = "")
          => LaidOutIn(fmt, fd.bytes, EndianPrefix(fd.format), fd.version,
                       NamedOrder(fd.format), NamedOrder(fd.format))
    /\ UnknownMarkerFails

\* C23 as the code has it: the records are laid out in the struct prefix the
\* lookup gives the marker, big endian for F0 F0 and little endian for 0F 0F,
\* the samples in the byte order of the machine whatever the marker, and a
\* read of a file with an unrecognized marker fails before any record is
\* parsed.
C23_MarkerSelectsStructPrefix ==
    /\ (hist = "packed" /\ ret.err = "")
          => /\ EndianPrefix(fd.format).struct # NamedOrder(fd.format)
             /\ LaidOutIn(fmt, fd.bytes, EndianPrefix(fd.format), fd.version,
                          EndianPrefix(fd.format).struct, "@")
    /\ UnknownMarkerFails

\* ---------------------------------------------------------------------
\* The two components of an IQ waveform assigned one after the other
\* ---------------------------------------------------------------------

\* the arrays a caller assigns to a component: int8 and int16 samples, the
\* int16 ones with a value an int8 cannot hold
ComponentValues(dtype) == IF dtype = "i1" THEN {0 - 128, 1} ELSE {1, 300}

ComponentInputs ==
    {NdArray(dtype, data) : dtype \in {"i1", "i2"}, data \in {<<>>}} \cup
    UNION {{NdArray(dtype, data) : data \in [1..n -> ComponentValues(dtype)]} :
              dtype \in {"i1", "i2"}, n \in 1..MaxLen}

\* a new IQWaveform; fd keeps the arrays the caller assigned last and counts
\* the buffers the setters allocated
InitComponents ==
    /\ w = IQWaveform
    /\ ret = [op |-> "init"]
    /\ hist = 0
    /\ fmt = None
    /\ fd = [i |-> None, q |-> None, allocated |-> 0]

\* the caller assigns arrays of one length N to the two components
OfOneLength(values) ==
    /\ fd.i # None => Len(The(fd.i).data) = Len(values.data)
    /\ fd.q # None => Len(The(fd.q).data) = Len(values.data)

\* iq_waveform.i_axis_values = values, or iq_waveform.q_axis_values = values
AssignComponent(part) ==
    /\ hist < MaxCalls
    /\ \E values \in ComponentInputs, fill \in 0..1 :
          /\ OfOneLength(values)
          /\ w' = iq_part_setter(w, part, values, fill)
          /\ fd' = [i |-> IF part = 1 THEN Some(values) ELSE fd.i,
                    q |-> IF part = 2 THEN Some(values) ELSE fd.q,
                    allocated |-> fd.allocated
                        + IF Len(w.interleaved_iq_axis_values.data) = 0 THEN 1 ELSE 0]
    /\ ret' = [op |-> IF part = 1 THEN "i_axis_values" ELSE "q_axis_values"]
    /\ hist' = hist + 1
    /\ UNCHANGED fmt

AssignI == AssignComponent(1)

AssignQ == AssignComponent(2)

NextComponents ==
    \/ AssignI
    \/ AssignQ

SpecComponents == InitComponents /\ [][NextComponents]_vars

BothAssigned == fd.i # None /\ fd.q # None

\* the buffer holds the elements of i at the even places and those of q at
\* the odd places, counted from 0
Interleaves(buffer, i, q) ==
    /\ Len(buffer) = 2 * Len(i)
    /\ Len(q) = Len(i)
    /\ \A k \in 1..Len(i) : buffer[2 * k - 1] = i[k] /\ buffer[2 * k] = q[k]

\* C24: once i_axis_values and q_axis_values of length N were assigned to a
\* new IQWaveform, in either order, interleaved_iq_axis_values has length 2N
\* with I at the even and Q at the odd places, the buffer was allocated once,
\* by the first assignment, and record_length is N.
C24_ComponentsInterleave ==
    BothAssigned =>
        /\ Interleaves(w.interleaved_iq_axis_values.data, The(fd.i).data, The(fd.q).data)
        /\ fd.allocated = 1
        /\ record_length(w) = Len(The(fd.i).data)

\* the elements of an array cast to a type
CastData(dtype, data) == [k \in DOMAIN data |-> SetItemCast(dtype, data[k])]

\* C24 as the code has it: the buffer interleaves the two arrays cast to the
\* element type of the buffer, which is that of the array assigned first when
\* N is not 0; it was allocated once unless N is 0, when every assignment
\* allocates an empty buffer anew; record_length is N.
C24_ComponentsInterleaveCast ==
    BothAssigned =>
        /\ Interleaves(w.interleaved_iq_axis_values.data,
                       CastData(w.interleaved_iq_axis_values.dtype, The(fd.i).data),
                       CastData(w.interleaved_iq_axis_values.dtype, The(fd.q).data))
        /\ fd.allocated = IF Len(The(fd.i).data) = 0 THEN hist ELSE 1
        /\ record_length(w) = Len(The(fd.i).data)

\* ---------------------------------------------------------------------
\* The order of the setup helpers
\* ---------------------------------------------------------------------

\* the curve buffers of the assembler: no sample, one sample that is zero,
\* one that is not, and two samples
OrderingBuffers ==
    {NdArray("i2", <<>>), NdArray("i2", <<0>>), NdArray("i2", <<1>>),
     NdArray("i2", <<1, 2>>)}

\* a WfmFormat whose caller assigned the curve buffer and nothing else
InitOrdering ==
    /\ w = None
    /\ ret = [op |-> "init", scale |-> 0, err |-> "", before |-> None, again |-> FALSE]
    /\ hist = 0
    /\ \E buffer \in OrderingBuffers :
          fmt = SetAttr(WfmFormat, "curve_buffer", RawSample(buffer))
    /\ fd = None

\* formatted_data._setup_wfm_format(versioning_number): the assembler with
\* the sections set before the first helper that raised, if one did
SetUpWfmFormat ==
    /\ hist < MaxCalls
    /\ \E versioning_number \in {VersionTWO, VersionTHREE} :
          \E call \in {setup_wfm_format(fmt, versioning_number)} :
              /\ fmt' = call.val
              /\ ret' = [op |-> "_setup_wfm_format", scale |-> 0, err |-> call.err,
                         before |-> fmt, again |-> FALSE]
    /\ hist' = hist + 1
    /\ UNCHANGED <<w, fd>>

NextOrdering ==
    \/ SetupHelper
    \/ SetUpWfmFormat

SpecOrdering == InitOrdering /\ [][NextOrdering]_vars

\* the prerequisites of a helper are missing in the assembler
LacksPrerequisites(name, self) ==
    CASE name = "setup_implicit_dimensions" -> Len(self.curve_buffer.data) = 0
      [] name = "setup_header" ->
            self.explicit_dimensions = None \/ self.implicit_dimensions = None
      [] name = "setup_file_info" ->
            self.header = None \/ self.pixel_map = None \/ self.summary_frame_type = None
      [] OTHER -> FALSE

NotEnoughInfo(err) ==
    err \in {"AttributeError: Not enough info to generate implicit dimensions sections.",
             "AttributeError: Not enough info to generate a header section.",
             "AttributeError: Not enough info to generate static file info section."}

\* the sections but file_info are set and file_info is what setup_file_info
\* makes of them
FileInfoLast(self) ==
    /\ \A i \in 1..Len(SetupOrder) : self[SetupOrder[i]] # None
    /\ \E again \in {setup_file_info([self EXCEPT !.file_info = None])} :
          ~Failed(again) /\ again.val.file_info = self.file_info

\* C25: a setup helper called before its prerequisites raises AttributeError
\* "Not enough info ..." and leaves the assembler unchanged, and
\* _setup_wfm_format computes file_info last, after every other section.
C25_SetupOrderingEnforced ==
    /\ (ret.op \in SetupHelpers /\ LacksPrerequisites(ret.op, ret.before))
          => NotEnoughInfo(ret.err) /\ fmt = ret.before
    /\ (ret.op = "_setup_wfm_format" /\ ret.err = "" /\ ret.before.file_info = None)
          => FileInfoLast(fmt)

\* C25 as the code has it: setup_implicit_dimensions and setup_header raise
\* the AttributeError; setup_file_info raises it only when the curve buffer
\* is one sample that is not zero, and a ValueError or a TypeError with every
\* other buffer; each leaves the assembler unchanged, and _setup_wfm_format
\* computes file_info last.
C25_SetupOrderingButFileInfo ==
    /\ (ret.op \in SetupHelpers /\ LacksPrerequisites(ret.op, ret.before))
          => /\ fmt = ret.before
             /\ IF ret.op = "setup_file_info"
                THEN IF Len(fmt.curve_buffer.data) = 1 /\ fmt.curve_buffer.data[1] # 0
                     THEN NotEnoughInfo(ret.err)
                     ELSE ret.err \in {"ValueError", "TypeError"}
                ELSE NotEnoughInfo(ret.err)
    /\ (ret.op = "_setup_wfm_format" /\ ret.err = "" /\ ret.before.file_info = None)
          => FileInfoLast(fmt)

\* ---------------------------------------------------------------------
\* The two slots of the dimensions of a packed assembler
\* ---------------------------------------------------------------------

\* the helpers the caller of the assembler calls before it packs: those of
\* the five dimensions, and setup_header
SuppliedBy == DimensionHelpers \cup {"setup_header"}

\* a WfmFormat whose caller assigned a curve buffer of two samples
InitDimensions ==
    /\ w = None
    /\ ret = [op |-> "init", err |-> "", before |-> None]
    /\ hist = "new"
    /\ fmt = SetAttr(WfmFormat, "curve_buffer", RawSample(NdArray("i2", <<1, 2>>)))
    /\ \E version_number \in AssemblerVersions :
          fd = [format |-> INTEL, version |-> version_number, bytes |-> <<>>]

\* formatted_data.setup_...(...) before the assembler is packed: the first
\* call of a dimension helper fills the first slot, a later one the second
SupplyDimension ==
    /\ hist = "new"
    /\ \E name \in SuppliedBy :
          \E call \in {CallSetupHelper(name, fmt, 1)} :
              /\ fmt' = IF Failed(call) THEN fmt ELSE call.val
              /\ ret' = [op |-> name, err |-> call.err, before |-> fmt]
    /\ UNCHANGED <<w, hist, fd>>

NextDimensions ==
    \/ SupplyDimension
    \/ PackWfmFile

SpecDimensions == InitDimensions /\ [][NextDimensions]_vars

\* the caller supplied the second slot of a dimension
SuppliedSecond(self, dimension) ==
    self[dimension] # None /\ The(self[dimension]).second # None

\* the slots of the dimensions in the order pack_wfm_file writes them
SlotOrder ==
    <<<<"explicit_dimensions", 1>>, <<"explicit_user_view", 1>>,
      <<"explicit_dimensions", 2>>, <<"explicit_user_view", 2>>,
      <<"implicit_dimensions", 1>>, <<"implicit_user_view", 1>>,
      <<"implicit_dimensions", 2>>, <<"implicit_user_view", 2>>,
      <<"time_info", 1>>, <<"time_info", 2>>>>

\* the bytes of the slots of the dimensions, one after the other
SlotBytes(self, endian) ==
    Concat([i \in 1..Len(SlotOrder) |->
               PackRecord(endian, The(self[SlotOrder[i][1]]).cls,
                          IF SlotOrder[i][2] = 1 THEN The(self[SlotOrder[i][1]]).first
                          ELSE The(The(self[SlotOrder[i][1]]).second))])

\* both slots of the five dimensions are set and the file holds them after
\* the pixmap, the first slot of each before its second
BothSlotsWritten(self, bytes, endian, version_number) ==
    /\ \A i \in 1..Len(FillOrder) :
          self[FillOrder[i]] # None /\ The(self[FillOrder[i]]).second # None
    /\ \E start \in {10 + get_cls_length("WaveformStaticFileInfo")
                     + get_cls_length("WaveformHeader")
                     + SummaryFrameBytes(version_number) + get_cls_length("PixMap")} :
          SubSeq(bytes, start + 1, start + Len(SlotBytes(self, endian)))
              = SlotBytes(self, endian)

\* the first slots are those the caller supplied, and the second slot of
\* explicit_dimensions, when pack_wfm_file filled it, says it is not in use
FilledSecond(self, before) ==
    /\ \A i \in 1..Len(FillOrder) :
          before[FillOrder[i]] # None
              => /\ The(self[FillOrder[i]]).first = The(before[FillOrder[i]]).first
                 /\ SuppliedSecond(before, FillOrder[i])
                       => The(self[FillOrder[i]]).second = The(before[FillOrder[i]]).second
    /\ ~SuppliedSecond(before, "explicit_dimensions")
          => /\ The(The(self.explicit_dimensions).second).format = EXPLICIT_NO_DIMENSION
             /\ The(The(self.explicit_dimensions).second).storage_type
                   = EXPLICIT_INVALID_STORAGE

\* C26: after pack_wfm_file each of the five dimensions has both slots set
\* and written, first then second; filling a second slot never alters the
\* first; a filled explicit second slot has the format EXPLICIT_NO_DIMENSION
\* and the storage EXPLICIT_INVALID_STORAGE; and exp_dim_ref_cnt and
\* imp_dim_ref_cnt of the header are 1 exactly when the caller supplied no
\* second dimension, 2 otherwise.
C26_BothSlotsPacked ==
    (hist = "packed" /\ ret.err = "") =>
        /\ BothSlotsWritten(fmt, fd.bytes, EndianPrefix(fd.format).struct, fd.version)
        /\ FilledSecond(fmt, ret.before)
        /\ The(fmt.header).exp_dim_ref_cnt
              = IF SuppliedSecond(ret.before, "explicit_dimensions") THEN 2 ELSE 1
        /\ The(fmt.header).imp_dim_ref_cnt
              = IF SuppliedSecond(ret.before, "implicit_dimensions") THEN 2 ELSE 1

\* C26 for an assembler whose header pack_wfm_file sets up itself: the caller
\* did not call setup_header before it supplied the dimensions.
C26_BothSlotsPackedHeaderLast ==
    (hist = "packed" /\ ret.err = "" /\ ret.before.header = None) => C26_BothSlotsPacked

\* ---------------------------------------------------------------------
\* The scan for the tag of the tekmeta block
\* ---------------------------------------------------------------------

\* the dicts written: empty, one entry, two entries, keys and text in ASCII
ScannedDicts ==
    {<<>>, <<<<(<<97>>), MetaValues[1]>>>>,
     <<<<(<<97>>), MetaValues[3]>>, <<(<<97, 98>>), MetaValues[4]>>>>}

\* the numbers of bytes between the position of the stream and the tag: the
\* tag in the first, the second and the third chunk read, and the tag
\* across the end of the first and of the second chunk
FillerLengths ==
    {0, 1, ChunkSize - 8, ChunkSize - 7, ChunkSize - 4, ChunkSize - 1, ChunkSize,
     ChunkSize + 1, 2 * ChunkSize - 8, 2 * ChunkSize - 7, 2 * ChunkSize - 1,
     2 * ChunkSize}

InitScan ==
    /\ w = None
    /\ ret = [op |-> "init"]
    /\ hist = "none"
    /\ \E meta_data \in ScannedDicts : fmt = [meta_data |-> meta_data]
    /\ fd = None

\* a file is made of filler bytes, none of them of the tag, and the block
\* _write_tekmeta(endian, filestream) appends
WriteAfterFiller ==
    /\ fd = None
    /\ \E endian \in Endians, filler \in FillerLengths :
          \E out \in {write_tekmeta(endian, fmt.meta_data)} :
              /\ ~Failed(out)
              /\ fd' = [endian |-> endian, filler |-> filler,
                        bytes |-> [i \in 1..filler |-> 0] \o out.val]
    /\ hist' = "intact"
    /\ ret' = [op |-> "write"]
    /\ UNCHANGED <<w, fmt>>

NextScan ==
    \/ WriteAfterFiller
    \/ ParseTekmeta

SpecScan == InitScan /\ [][NextScan]_vars

\* what parse_tekmeta returns or raises, but the position it leaves
Decoded(out) == IF Failed(out) THEN [err |-> out.err] ELSE [err |-> "", val |-> out.val]

\* the tag lies across the end of a chunk read from the position at entry
Straddles(filler) == (filler % ChunkSize) + Len(Tag) > ChunkSize

\* C27: parse_tekmeta decodes the entries wherever the tag starts between
\* the position of the stream at entry and the end of the file, the offsets
\* at which the tag straddles two chunks of 1024 bytes included: the dict is
\* the same as when the tag starts at the position at entry.
C27_TagFoundWhereverItStarts ==
    ret.op = "parse" =>
        Decoded(ret.out)
            = Decoded(parse_tekmeta(fd.endian,
                                    SubSeq(fd.bytes, fd.filler + 1, Len(fd.bytes)), 0))

\* C27 as the code has it: the dict is the same when the tag lies within one
\* chunk, and empty, whatever was written, when the tag straddles two.
C27_TagFoundWithinAChunk ==
    ret.op = "parse" =>
        IF Straddles(fd.filler) THEN Decoded(ret.out) = [err |-> "", val |-> <<>>]
        ELSE C27_TagFoundWhereverItStarts

\* ---------------------------------------------------------------------
\* An assembler packed a second time
\* ---------------------------------------------------------------------

\* formatted_data.pack_wfm_file(endian, version_number, filestream) on a new
\* empty file, by the assembler that was packed before or by the one
\* unpack_wfm_file filled; ret keeps the bytes of the new file
PackOnceMore(self) ==
    /\ \E packed \in {pack_wfm_file(self, EndianPrefix(fd.format), fd.version)} :
          ret' = [op |-> "pack_once_more", err |-> packed.err, before |-> self,
                  bytes |-> packed.bytes, from |-> hist]
    /\ hist' = "repacked"
    /\ UNCHANGED <<w, fmt, fd>>

PackAgain ==
    /\ hist = "packed"
    /\ ret.err = ""
    /\ PackOnceMore(fmt)

PackUnpacked ==
    /\ hist = "unpacked"
    /\ ~Failed(ret.out)
    /\ PackOnceMore(ret.out.val)

NextRepack ==
    \/ AssignAttribute
    \/ PackWfmFile
    \/ UnpackWfmFile
    \/ PackAgain
    \/ PackUnpacked

SpecRepack == InitAssembler /\ [][NextRepack]_vars

\* C29: pack_wfm_file is repeatable: the assembler packed a second time with
\* the same endian and version, and the assembler unpack_wfm_file filled
\* from the file, write the bytes of the first file; the checksum written
\* does not depend on the file_checksum the assembler holds.
C29_PackRepeatable ==
    hist = "repacked" => ret.err = "" /\ ret.bytes = fd.bytes

\* the bytes of a file before its checksum: all but the checksum and the
\* tekmeta block of a dict with no entries
BeforeChecksum(bytes) ==
    SubSeq(bytes, 1, Len(bytes) - ByteType("UnsignedLongLong").length
                     - Len(write_tekmeta("<", <<>>).val))

\* the checksum a file holds
ChecksumOf(bytes, endian) ==
    Unpack(endian, "UnsignedLongLong",
           SubSeq(bytes, Len(BeforeChecksum(bytes)) + 1,
                  Len(BeforeChecksum(bytes)) + ByteType("UnsignedLongLong").length))

\* C29 as the code has it: the assembler packed again writes the bytes of
\* the first file up to the checksum, and a checksum that is the first one
\* plus the sum of its own eight bytes.
C29_PackAgainAddsChecksum ==
    (hist = "repacked" /\ ret.from = "packed") =>
        /\ ret.err = ""
        /\ BeforeChecksum(ret.bytes) = BeforeChecksum(fd.bytes)
        /\ ChecksumOf(ret.bytes, EndianPrefix(fd.format).struct)
              = ChecksumOf(fd.bytes, EndianPrefix(fd.format).struct)
                + get_value_summation("UnsignedLongLong", The(fmt.file_checksum))

\* ---------------------------------------------------------------------
\* The kind of waveform read_file returns
\* ---------------------------------------------------------------------

\* C30: the dispatch of the .wfm format preserves the kind of waveform: for
\* every analog, IQ or digital waveform write_file accepts, with meta_info
\* set or None, read_file on the file returns a waveform of the same class.
C30_KindPreserved ==
    hist = "file_read" => ~Failed(ret.out) /\ ret.out.val.kind = w.kind

\* C30 as the code has it: the kind is preserved but for an IQWaveform
\* written with meta_info None, which has no IQ field in its tekmeta block
\* and is read as an AnalogWaveform, and for a DigitalWaveform written with
\* a meta_info, whose read raises TypeError.
C30_KindPreservedButBareIQ ==
    hist = "file_read" =>
        IF w.kind = "digital" /\ ~IsNone(w.meta_info)
        THEN ret.out = Raise("TypeError")
        ELSE /\ ~Failed(ret.out)
             /\ ret.out.val.kind = IF w.kind = "iq" /\ IsNone(w.meta_info)
                                   THEN "analog" ELSE w.kind
====
